---- MODULE Spec2Model ----
(***************************************************************************)
(* A model of the procedural level generator, LevelGenerator, of           *)
(* Pipeline2_Solver.py: zone placement, the topology connector, the        *)
(* corridor router, the cover placer and the sightline analyzer.           *)
(*                                                                         *)
(* Coordinates are integers, a cell is <<x, y>>, and the grid is indexed   *)
(* grid[y][x] as in the source.  Normalised locations are hundredths       *)
(* (15 stands for 0.15).  Every random draw of the source is a \E over     *)
(* the values the draw can return; where the full range is too wide to    *)
(* enumerate, a named bound cuts it to a sub-range.                        *)
(***************************************************************************)
EXTENDS Integers, Sequences, FiniteSets, TLC

VARIABLES
    width,      \* self.width
    height,     \* self.height
    grid,       \* self.grid, grid[y][x]
    areas,      \* self.areas, a dict kept in insertion order: a sequence of entries
    level_spec, \* the specification handed to generate_from_json
    random,     \* the random module: the values its draws range over in a run
    pc,         \* the position inside generate_from_json
    raised,     \* "none", or the exception that ended the call
    zl,         \* the locals of the zone loops and of _create_zone_with_spec
    cn,         \* the locals of _connect_areas: the Router calls made and to make
    rt,         \* the locals of _create_path_with_corners and _draw_path_with_turns
    cv,         \* the locals of _place_cover_objects
    stats,      \* the sightline stats of the result
    hist        \* history: what each call stamped, the grid at a call's entry

vars == <<width, height, grid, areas, level_spec, random, pc, raised, zl, cn,
          rt, cv, stats, hist>>

\* what the zone phase leaves alone
later == <<cn, rt, cv, stats>>

----------------------------------------------------------------------------
(* CellType *)

EMPTY == 0
ROOM == 1
CORRIDOR == 2
SPAWN_T == 3
SPAWN_CT == 4
BOMBSITE == 5
MID_AREA == 6
CHOKEPOINT == 7
CONNECTOR == 8
COVER == 9

CellTypes == {EMPTY, ROOM, CORRIDOR, SPAWN_T, SPAWN_CT, BOMBSITE, MID_AREA,
              CHOKEPOINT, CONNECTOR, COVER}

----------------------------------------------------------------------------
(* Arithmetic helpers *)

Max(a, b) == IF a >= b THEN a ELSE b

Min(a, b) == IF a <= b THEN a ELSE b

Abs(a) == IF a < 0 THEN -a ELSE a

SetMin(S) == CHOOSE m \in S : \A n \in S : m <= n

SetMax(S) == CHOOSE m \in S : \A n \in S : m >= n

----------------------------------------------------------------------------
(* The grid *)

InGrid(x, y) == 0 <= x /\ x < width /\ 0 <= y /\ y < height

EmptyGrid(w, h) == [y \in 0..(h - 1) |-> [x \in 0..(w - 1) |-> EMPTY]]

\* size_map.get(size, 6)
SizeMap(s) ==
    CASE s = "small" -> 4
      [] s = "medium" -> 6
      [] s = "large" -> 9
      [] OTHER -> 6

Shapes == <<"square", "rectangle", "L_shape", "T_shape", "plus", "organic">>

ShapeSet == {Shapes[i] : i \in 1..Len(Shapes)}

----------------------------------------------------------------------------
(* The random draws of _get_shape_cells.  A draw record d holds what one   *)
(* call consumes: the orientation and the bonus of a rectangle, and the    *)
(* blocks of an organic shape, each block [mx, my, bs, add] with           *)
(* mx, my in -2..size (relative to the anchor), bs in {2, 3}.              *)

NoDraw == [orient |-> TRUE, bonus |-> 1, blocks |-> <<>>]

Block(mx, my, bs, add) == [mx |-> mx, my |-> my, bs |-> bs, add |-> add]

\* The organic draws the model enumerates: block sequences of length 2..5
\* whose blocks are draws the source can make for the given size.
OrganicScript(i, size) ==
    CASE i = 1 -> <<Block(size, 0, 3, TRUE), Block(-2, -2, 2, TRUE)>>
      [] i = 2 -> <<Block(0, 0, 3, FALSE), Block(size - 3, 0, 3, FALSE),
                    Block(0, size - 3, 3, FALSE),
                    Block(size - 3, size - 3, 3, FALSE)>>
      [] i = 3 -> <<Block(0, 0, 2, FALSE), Block(size - 1, size - 1, 3, TRUE),
                    Block(size, size, 2, FALSE)>>
      [] OTHER -> <<Block(-2, size, 2, TRUE), Block(size - 2, -2, 3, TRUE),
                    Block(1, 1, 2, FALSE), Block(size, size, 3, TRUE),
                    Block(0, size - 1, 2, FALSE)>>

NumOrganicScripts == 3

MaxBonus == 3

\* the values of random.random() the Cover Placer draws, in thousandths: one
\* below every chance, one between each two, one above all
CoverRolls == {50, 100, 150, 900}

\* The random module.  A run's generator is described by the values its
\* draws range over: the size variations, the placement offsets, the shapes
\* random.choice picks from, the organic block draws, the endpoint and width
\* jitters of a path, the draws of the walk of _draw_path_with_turns (the
\* detour amount, the first side, the segment lengths, the detour jitters,
\* the side flips) and the rolls of the Cover Placer.  AllDraws is the
\* generator of the source; a specification over a large grid starts from a
\* generator that yields a sub-range of each.
AllDraws == [sizes |-> -1..1, offsets |-> -5..5, shapes |-> ShapeSet,
             scripts |-> 1..NumOrganicScripts, jitters |-> -1..1,
             amounts |-> -1..2, sides |-> BOOLEAN, lengths |-> -2..2,
             detours |-> -1..1, flips |-> BOOLEAN, rolls |-> CoverRolls]

ShapeDraws(shape, size) ==
    CASE shape = "rectangle" ->
            {[orient |-> o, bonus |-> b, blocks |-> <<>>] :
                o \in BOOLEAN, b \in 1..MaxBonus}
      [] shape = "organic" ->
            {[orient |-> TRUE, bonus |-> 1, blocks |-> OrganicScript(i, size)] :
                i \in random.scripts}
      [] OTHER -> {NoDraw}

----------------------------------------------------------------------------
(* _get_shape_cells *)

Rect(x, y, w, h) == {<<x + dx, y + dy>> : dx \in 0..(w - 1), dy \in 0..(h - 1)}

RECURSIVE OrganicCells(_, _, _, _)
OrganicCells(cells, blocks, x, y) ==
    IF blocks = <<>> THEN cells
    ELSE LET b == Head(blocks)
             blk == Rect(x + b.mx, y + b.my, b.bs, b.bs)
         IN OrganicCells(IF b.add THEN cells \cup blk ELSE cells \ blk,
                         Tail(blocks), x, y)

GetShapeCells(x, y, size, shape, d) ==
    CASE shape = "square" -> Rect(x, y, size, size)
      [] shape = "rectangle" ->
            IF d.orient
            THEN Rect(x, y, size + d.bonus, Max(3, size - 1))
            ELSE Rect(x, y, Max(3, size - 1), size + d.bonus)
      [] shape = "L_shape" ->
            Rect(x, y, size \div 2 + 1, size) \cup Rect(x, y, size, size \div 2 + 1)
      [] shape = "T_shape" ->
            Rect(x, y, size, size \div 3 + 1)
            \cup {<<x + dx, y + dy>> :
                    dx \in (size \div 3)..(size \div 3 + size \div 2),
                    dy \in (size \div 3)..(size - 1)}
      [] shape = "plus" ->
            LET mid == size \div 2
            IN {<<x + dx, y + dy>> : dx \in 0..(size - 1), dy \in (mid - 1)..(mid + 1)}
               \cup {<<x + dx, y + dy>> : dx \in (mid - 1)..(mid + 1), dy \in 0..(size - 1)}
      [] shape = "organic" -> OrganicCells(Rect(x, y, size, size), d.blocks, x, y)
      [] OTHER -> {}

----------------------------------------------------------------------------
(* _can_place_shaped_zone and _place_shaped_zone, on the cells a call to   *)
(* _get_shape_cells returned.                                              *)

CanPlaceCells(g, cells) ==
    \A c \in cells : \A dx \in -1..1, dy \in -1..1 :
        InGrid(c[1] + dx, c[2] + dy) => g[c[2] + dy][c[1] + dx] = EMPTY

\* The cells of a returned list that the bounds test lets the stamp write.
StampedCells(cells) == {c \in cells : InGrid(c[1], c[2])}

\* a list index as Python resolves it: a negative index counts from the end
WrapIndex(i, n) == IF i < 0 THEN i + n ELSE i

\* Mutant of _place_shaped_zone: the bounds test of line 334 is dropped, so a
\* cell below zero wraps around and a cell past the end raises IndexError.
PlaceShapedZoneUnguarded(g, cells, cell_type) ==
    LET valid == {c \in cells : /\ -width <= c[1] /\ c[1] < width
                                /\ -height <= c[2] /\ c[2] < height}
        inside == {<<WrapIndex(c[1], width), WrapIndex(c[2], height)>> : c \in valid}
    IN [grid |-> [y \in 0..(height - 1) |-> [x \in 0..(width - 1) |->
                     IF <<x, y>> \in inside THEN cell_type ELSE g[y][x]]],
        cells |-> cells,
        raised |-> valid # cells]

\* Mutant of _place_shaped_zone: the cells are stamped but `return cells` is
\* missing, so the caller sees a falsy result.
PlaceShapedZoneNoReturn(g, cells, cell_type) ==
    LET inside == StampedCells(cells)
    IN [grid |-> [y \in 0..(height - 1) |-> [x \in 0..(width - 1) |->
                     IF <<x, y>> \in inside THEN cell_type ELSE g[y][x]]],
        cells |-> {},
        raised |-> FALSE]

\* The grid after the stamping loop, the list handed back to the caller, and
\* whether a write raised.
PlaceShapedZone(g, cells, cell_type) ==
    LET inside == StampedCells(cells)
        rows == {c[2] : c \in inside}
    IN [grid |-> [y \in 0..(height - 1) |->
                     IF y \notin rows THEN g[y]
                     ELSE [x \in 0..(width - 1) |->
                             IF <<x, y>> \in inside THEN cell_type ELSE g[y][x]]],
        cells |-> cells,
        raised |-> FALSE]

----------------------------------------------------------------------------
(* _parse_location.  A location is [form, x, y, word]: form "dict" or      *)
(* "list" carry x, y in hundredths, "str" carries a keyword, "none" is an  *)
(* absent (or falsy) value and "bad" is any other value.  "dict_word" is a *)
(* mapping and "list_word" a sequence of two or more entries in which a    *)
(* coordinate is not a number; "list_short" is a sequence of one entry.    *)

Loc(x, y) == [form |-> "dict", x |-> x, y |-> y, word |-> ""]

NoLoc == [form |-> "none", x |-> 50, y |-> 50, word |-> ""]

Clamp01(v) == Max(0, Min(100, v))

\* int(f * n) for f a number of hundredths in [0, 100]
Scale(f, n) == (f * n) \div 100

Keyword(word) ==
    CASE word = "top-left" -> <<20, 20>>
      [] word = "top-right" -> <<80, 20>>
      [] word = "bottom-left" -> <<20, 80>>
      [] word = "bottom-right" -> <<80, 80>>
      [] word = "center" -> <<50, 50>>
      [] word = "top" -> <<50, 20>>
      [] word = "bottom" -> <<50, 80>>
      [] word = "left" -> <<20, 50>>
      [] word = "right" -> <<80, 50>>
      [] OTHER -> <<50, 50>>

ParseLocation(location) ==
    CASE location.form \in {"dict", "list"} ->
            <<Scale(Clamp01(location.x), width), Scale(Clamp01(location.y), height)>>
      [] location.form = "str" ->
            <<Scale(Keyword(location.word)[1], width),
              Scale(Keyword(location.word)[2], height)>>
      [] OTHER -> <<width \div 2, height \div 2>>

\* max(0.0, min(1.0, v)) compares v with a float: a str or None raises
ParseRaises(location) == location.form \in {"dict_word", "list_word"}

\* self._parse_location(location) if location else (width // 2, height // 2)
TargetOf(location) ==
    IF location.form = "none" THEN <<width \div 2, height \div 2>>
    ELSE ParseLocation(location)

----------------------------------------------------------------------------
(* The zone requests of the specification, in the order generate_from_json *)
(* serves them: spawn_zones, then bomb_sites, then areas.  A request is    *)
(* [kind, id, size, location, preference, shape]; "" is an absent field.   *)

Request(kind, id, size, location, preference, shape) ==
    [kind |-> kind, id |-> id, size |-> size, location |-> location,
     preference |-> preference, shape |-> shape]

MidNames == <<"mid_0", "mid_1", "mid_2", "mid_3">>

\* the name argument and the key of self.areas
ZoneName(req, mid_index) ==
    CASE req.kind = "spawn" -> req.id
      [] req.kind = "site" -> req.id
      [] OTHER -> MidNames[mid_index + 1]

ZoneKey(req, mid_index) ==
    CASE req.kind = "spawn" -> IF req.id = "T" THEN "T_spawn" ELSE "CT_spawn"
      [] req.kind = "site" ->
            (CASE req.id = "A" -> "site_A" [] req.id = "B" -> "site_B"
               [] OTHER -> "site_C")
      [] OTHER -> MidNames[mid_index + 1]

ZoneType(req) ==
    CASE req.kind = "spawn" -> IF req.id = "T" THEN SPAWN_T ELSE SPAWN_CT
      [] req.kind = "site" -> BOMBSITE
      [] OTHER -> MID_AREA

\* Mutant of size_map.get(spec.get("size", "medium"), 6): the default of the
\* inner get is "large"
ZoneSizeDefaultLarge(req) == SizeMap(IF req.size = "" THEN "large" ELSE req.size)

ZoneSize(req) == SizeMap(IF req.size = "" THEN "medium" ELSE req.size)

ZonePreference(req) ==
    CASE req.kind = "spawn" -> IF req.preference = "" THEN "edge" ELSE req.preference
      [] req.kind = "site" -> IF req.preference = "" THEN "any" ELSE req.preference
      [] OTHER -> "any"

ZoneLocation(req) ==
    IF req.kind = "mid" /\ req.location.form = "none" THEN Loc(50, 50)
    ELSE req.location

\* self.areas[key] = zone
DictSet(d, key, zone) ==
    IF \E i \in 1..Len(d) : d[i].key = key
    THEN [i \in 1..Len(d) |-> IF d[i].key = key THEN [key |-> key, zone |-> zone] ELSE d[i]]
    ELSE Append(d, [key |-> key, zone |-> zone])

Keys(d) == {d[i].key : i \in 1..Len(d)}

----------------------------------------------------------------------------
(* _create_zone_with_spec: the part before the retry loop                  *)

\* the edge preference on one axis: pushed only when within 30% of an edge
EdgePush(t, n, size) ==
    IF 10 * t < 3 * n THEN size \div 2 + 2
    ELSE IF 10 * t > 7 * n THEN n - size \div 2 - 2
    ELSE t

ZoneTarget(location, preference, size) ==
    LET t == TargetOf(location)
    IN IF preference = "edge"
       THEN <<EdgePush(t[1], width, size), EdgePush(t[2], height, size)>>
       ELSE t

\* the shapes the call may end up with
ShapeChoices(specified_shape) ==
    IF specified_shape \in ShapeSet THEN {specified_shape} ELSE random.shapes

MaxAttempts == 50

\* random.randint(-2, 2) on the first attempt, random.randint(-5, 5) afterwards
OffsetDraws(attempt) == (IF attempt > 0 THEN -5..5 ELSE -2..2) \cap random.offsets

\* the clamped top-left corner of an attempt, on one axis
Anchor(t, off, n, size) == Max(2, Min(n - size - 2, t + off - size \div 2))

\* the returned zone: the tight bounding box of the returned cells
ZoneOf(cells, name, cell_type, shape) ==
    LET xs == {c[1] : c \in cells}
        ys == {c[2] : c \in cells}
    IN [x |-> SetMin(xs), y |-> SetMin(ys),
        w |-> SetMax(xs) - SetMin(xs) + 1, h |-> SetMax(ys) - SetMin(ys) + 1,
        name |-> name, type |-> cell_type, shape |-> shape]

----------------------------------------------------------------------------
(* generate_from_json, the three zone loops, and _create_zone_with_spec.   *)
(* zl = [zi, attempt, size, shape, tx, ty, mid_index, ret]: zi indexes the *)
(* request being served, ret is what the last call returned; the locals    *)
(* of a call are forgotten when it returns.                                *)

ZlInit == [zi |-> 1, attempt |-> 0, size |-> 0, shape |-> "", tx |-> 0, ty |-> 0,
           mid_index |-> 0, ret |-> "pending"]

CurrentRequest == level_spec.zones[zl.zi]

\* an area whose type is not "mid" is passed over
SkipArea ==
    /\ pc = "zones" /\ raised = "none"
    /\ zl.zi <= Len(level_spec.zones)
    /\ CurrentRequest.kind = "other"
    /\ zl' = [zl EXCEPT !.zi = @ + 1]
    /\ UNCHANGED <<width, height, grid, areas, level_spec, random, pc, raised, hist, later>>

\* lines 190-236: the target, the size jitter, the edge push, the shape
CreateZoneBegin ==
    /\ pc = "zones" /\ raised = "none"
    /\ zl.zi <= Len(level_spec.zones)
    /\ CurrentRequest.kind # "other"
    /\ IF ParseRaises(ZoneLocation(CurrentRequest))
       THEN /\ raised' = "TypeError"
            /\ UNCHANGED <<pc, zl, hist>>
       ELSE /\ \E size_variation \in random.sizes,
                  shape \in ShapeChoices(CurrentRequest.shape) :
                  LET size == Max(3, ZoneSize(CurrentRequest) + size_variation)
                      t == ZoneTarget(ZoneLocation(CurrentRequest),
                                      ZonePreference(CurrentRequest), size)
                  IN zl' = [zl EXCEPT !.attempt = 0, !.size = size, !.shape = shape,
                                      !.tx = t[1], !.ty = t[2], !.ret = "pending"]
            /\ pc' = "attempt"
            /\ hist' = [hist EXCEPT !.entry = grid]
            /\ UNCHANGED raised
    /\ UNCHANGED <<width, height, grid, areas, level_spec, random, later>>

\* the clamped corners the offset draws of an attempt lead to, on one axis
Anchors(t, attempt, n, size) == {Anchor(t, off, n, size) : off \in OffsetDraws(attempt)}

\* What the draws of one pass of the retry loop, lines 239-248, come to at
\* the clamped corner (x, y): whether _can_place_shaped_zone, which consumes
\* the draws d1, passes, and if so the cells _get_shape_cells hands to
\* _place_shaped_zone, which consumes the draws d2.
AttemptDraw(x, y, d1, d2) ==
    LET ok == CanPlaceCells(grid, GetShapeCells(x, y, zl.size, zl.shape, d1))
    IN [ok |-> ok,
        cells |-> IF ok THEN GetShapeCells(x, y, zl.size, zl.shape, d2) ELSE {}]

AttemptDraws ==
    {AttemptDraw(x, y, d1, d2) :
        x \in Anchors(zl.tx, zl.attempt, width, zl.size),
        y \in Anchors(zl.ty, zl.attempt, height, zl.size),
        d1 \in ShapeDraws(zl.shape, zl.size),
        d2 \in ShapeDraws(zl.shape, zl.size)}

\* lines 247-259 for one such outcome: the grid after the pass, the cells
\* _place_shaped_zone returned, whether a write raised, and whether the
\* pass returns a zone (`if cells`)
AttemptResult(a) ==
    IF a.ok
    THEN LET placed == PlaceShapedZone(grid, a.cells, ZoneType(CurrentRequest))
         IN [grid |-> placed.grid, cells |-> placed.cells,
             raised |-> placed.raised, zone |-> placed.cells # {}]
    ELSE [grid |-> grid, cells |-> {}, raised |-> FALSE, zone |-> FALSE]

\* Mutant of the retry loop: `while True` in place of `for attempt in
\* range(50)`, so a failed attempt is followed by another without end.
CreateZoneRetryForever ==
    /\ pc = "attempt" /\ raised = "none"
    /\ \E a \in AttemptDraws : \E r \in {AttemptResult(a)} :
          /\ ~r.zone /\ ~r.raised
          /\ grid' = r.grid
    /\ UNCHANGED <<width, height, areas, level_spec, random, pc, raised, zl, hist,
                   later>>

\* an attempt that places nothing: the next attempt, or return None after
\* the last one
CreateZoneRetry ==
    /\ pc = "attempt" /\ raised = "none"
    /\ zl.attempt < MaxAttempts
    /\ \E a \in AttemptDraws : \E r \in {AttemptResult(a)} :
          /\ ~r.zone /\ ~r.raised
          /\ grid' = r.grid
    /\ IF zl.attempt + 1 < MaxAttempts
       THEN /\ zl' = [zl EXCEPT !.attempt = @ + 1]
            /\ UNCHANGED pc
       ELSE \* return None: the caller goes on to the next request
            /\ zl' = [ZlInit EXCEPT !.zi = zl.zi + 1, !.ret = "none",
                                    !.mid_index = zl.mid_index]
            /\ pc' = "zones"
    /\ UNCHANGED <<width, height, areas, level_spec, random, raised, hist, later>>

\* an attempt that stamps the zone and returns it; the caller files it in
\* self.areas under its key
CreateZonePlaced ==
    /\ pc = "attempt" /\ raised = "none"
    /\ zl.attempt < MaxAttempts
    /\ \E a \in AttemptDraws : \E r \in {AttemptResult(a)} :
          LET key == ZoneKey(CurrentRequest, zl.mid_index)
          IN /\ r.zone \/ r.raised
             /\ grid' = r.grid
             /\ IF r.raised
                THEN /\ raised' = "IndexError"
                     /\ UNCHANGED <<areas, zl, pc, hist>>
                ELSE /\ areas' = DictSet(areas, key,
                                    ZoneOf(r.cells, ZoneName(CurrentRequest, zl.mid_index),
                                           ZoneType(CurrentRequest), zl.shape))
                     /\ zl' = [ZlInit EXCEPT !.zi = zl.zi + 1, !.ret = "zone",
                                  !.mid_index = IF CurrentRequest.kind = "mid"
                                                THEN zl.mid_index + 1
                                                ELSE zl.mid_index]
                     /\ hist' = [hist EXCEPT !.stamps = Append(@,
                                    [key |-> key, cells |-> r.cells,
                                     stamped |-> StampedCells(r.cells)])]
                     /\ pc' = "zones"
                     /\ UNCHANGED raised
    /\ UNCHANGED <<width, height, level_spec, random, later>>

\* the three loops are over: on to _connect_areas
ZonesDone ==
    /\ pc = "zones" /\ raised = "none"
    /\ zl.zi > Len(level_spec.zones)
    /\ pc' = "connect"
    /\ UNCHANGED <<width, height, grid, areas, level_spec, random, raised, zl, hist, later>>

CnInit == [plan |-> <<>>, calls |-> <<>>, width |-> 0, max_segment |-> 0, num_lanes |-> 0]

RtInit == [cx |-> 0, cy |-> 0, tx |-> 0, ty |-> 0, w |-> 0, k |-> 0,
           horiz |-> FALSE, detour |-> 0, right |-> FALSE, iter |-> 0,
           left |-> 0, dt |-> 0]

CvInit == [x |-> 0, y |-> 0]

StatsInit == [max_horizontal_sightline |-> 0, max_vertical_sightline |-> 0,
              estimated_max_diagonal |-> 0]

\* heap holds the grid and the zone table that earlier calls of
\* generate_from_json left behind, one pair of objects per entry, and
\* results the references earlier calls returned with what they held then
HistInit(g) == [entry |-> g, stamps |-> <<>>, heap |-> <<>>, results |-> <<>>,
                calls |-> 1]

\* a dict without keys, and d.get(key, default) on a dict d
EmptyDict == [key \in {} |-> 0]

Get(d, key, default) == IF key \in DOMAIN d THEN d[key] ELSE default

\* a specification without connectivity, sightline_control and cover_objects
NoConnect == [connectivity |-> EmptyDict, sightline_control |-> EmptyDict,
              cover_objects |-> EmptyDict]

----------------------------------------------------------------------------
(* SpecPlace: the zone phase of generate_from_json on small grids.         *)

\* a large zone asked for at (0, 0) on a 10 x 10 grid, then a small one
BoundaryZones ==
    <<Request("site", "A", "large", Loc(0, 0), "", ""),
      Request("spawn", "T", "small", Loc(100, 100), "", "square")>>

\* two small zones near the bottom edge of a 12 x 12 grid, the later one
\* free in its shape
PairZones ==
    <<Request("spawn", "CT", "small", Loc(100, 100), "any", "L_shape"),
      Request("other", "", "", NoLoc, "", ""),
      Request("mid", "", "small", Loc(0, 100), "", "")>>

PlaceInputs ==
    {[w |-> 10, h |-> 10, zones |-> BoundaryZones],
     [w |-> 12, h |-> 12, zones |-> PairZones]}

InitPlace ==
    \E in \in PlaceInputs :
        /\ width = in.w /\ height = in.h
        /\ grid = EmptyGrid(in.w, in.h)
        /\ areas = <<>>
        /\ level_spec = [zones |-> in.zones] @@ NoConnect
        /\ random = AllDraws
        /\ pc = "zones"
        /\ raised = "none"
        /\ zl = ZlInit
        /\ cn = CnInit /\ rt = RtInit /\ cv = CvInit /\ stats = StatsInit
        /\ hist = HistInit(EmptyGrid(in.w, in.h))

NextPlace ==
    SkipArea \/ CreateZoneBegin \/ CreateZoneRetry \/ CreateZonePlaced \/ ZonesDone

SpecPlace == InitPlace /\ [][NextPlace]_vars

----------------------------------------------------------------------------
(* Zone placement: the claims                                              *)

Chebyshev(a, b) == Max(Abs(a[1] - b[1]), Abs(a[2] - b[2]))

\* C1: for any two zones placed in one run, no cell stamped for the later zone
\* is equal to or within Chebyshev distance 1 of a cell stamped for the
\* earlier one.
C1_ZonesKeepApart ==
    \A i, j \in 1..Len(hist.stamps) :
        i < j => \A a \in hist.stamps[i].stamped, b \in hist.stamps[j].stamped :
                    Chebyshev(a, b) > 1

\* C2: every zone of the zone table has its bounding rectangle inside the
\* grid: 0 <= x, 0 <= y, x + w <= width, y + h <= height.
C2_ZonesInsideGrid ==
    \A i \in 1..Len(areas) :
        LET z == areas[i].zone
        IN 0 <= z.x /\ 0 <= z.y /\ z.x + z.w <= width /\ z.y + z.h <= height

\* a step in which _create_zone_with_spec returns None
ReturnsNone == pc = "attempt" /\ zl'.ret = "none"

\* C7: when _create_zone_with_spec gives up, the grid is as it was when the
\* call was entered, the zone table is unchanged, nothing is raised and
\* generate_from_json goes on with the next request.
C7_FailureLeavesNoTrace ==
    [][ReturnsNone =>
          /\ grid' = hist.entry
          /\ areas' = areas
          /\ raised' = "none"
          /\ pc' = "zones" /\ zl'.zi = zl.zi + 1]_vars

\* C7 witness: a call has given up on a grid that already holds a zone, and
\* generation has moved on
C7_Witness ==
    /\ zl.ret = "none" /\ pc = "connect"
    /\ Len(areas) = 1
    /\ \E y \in 0..(height - 1), x \in 0..(width - 1) : grid[y][x] # EMPTY

----------------------------------------------------------------------------
(* The Corridor Router: _is_open_cell, _get_safe_width, _draw_segment and  *)
(* the cell-by-cell walk of _draw_path_with_turns.                         *)

IsOpenCell(cell_type) ==
    cell_type \in {CORRIDOR, BOMBSITE, MID_AREA, SPAWN_T, SPAWN_CT, CONNECTOR}

\* the 7-cell cross-section through (x, y), across the direction of travel
GetSafeWidth(g, x, y, desired_width, is_horizontal) ==
    LET open_count ==
            Cardinality({d \in -3..3 :
                IF is_horizontal
                THEN InGrid(x, y + d) /\ IsOpenCell(g[y + d][x])
                ELSE InGrid(x + d, y) /\ IsOpenCell(g[y][x + d])})
    IN IF open_count > 4 THEN 1
       ELSE IF open_count > 2 THEN Max(1, desired_width - 1)
       ELSE desired_width

\* Mutant of the stroke: the offsets are w - width // 2 - 1, so a stroke of
\* width 1 or 2 lies beside the centreline
CrossSectionShifted(x, y, w, is_horizontal) ==
    IF is_horizontal
    THEN {<<x, y + i - w \div 2 - 1>> : i \in 0..(w - 1)}
    ELSE {<<x + i - w \div 2 - 1, y>> : i \in 0..(w - 1)}

\* the cells of a stroke of the given width through (x, y), across the
\* direction of travel: offsets w - width // 2 for w in range(width)
CrossSection(x, y, w, is_horizontal) ==
    IF is_horizontal
    THEN {<<x, y + i - w \div 2>> : i \in 0..(w - 1)}
    ELSE {<<x + i - w \div 2, y>> : i \in 0..(w - 1)}

\* Mutant of the guarded write: the `== CellType.EMPTY` test is dropped, so
\* every cell of the stroke inside the grid becomes CORRIDOR
StampCorridorUnguarded(g, cells) ==
    [y \in 0..(height - 1) |->
        [x \in 0..(width - 1) |-> IF <<x, y>> \in cells THEN CORRIDOR ELSE g[y][x]]]

\* the guarded write of the Router: a cell in the grid that is EMPTY becomes
\* CORRIDOR, any other cell is left as it is
StampCorridor(g, cells) ==
    LET rows == {c[2] : c \in cells}
    IN [y \in 0..(height - 1) |->
           IF y \notin rows THEN g[y]
           ELSE [x \in 0..(width - 1) |->
                   IF <<x, y>> \in cells /\ g[y][x] = EMPTY THEN CORRIDOR ELSE g[y][x]]]

\* _draw_segment: a horizontal stroke along y1, then a vertical one along x2
DrawSegment(g, x1, y1, x2, y2, w) ==
    LET hcells == UNION {CrossSection(x, y1, w, TRUE) : x \in Min(x1, x2)..Max(x1, x2)}
        vcells == UNION {CrossSection(x2, y, w, FALSE) : y \in Min(y1, y2)..Max(y1, y2)}
    IN StampCorridor(StampCorridor(g, hcells), vcells)

Toward(c, t) == IF c < t THEN c + 1 ELSE c - 1

MaxIterations == 20

\* lines 483-486: the dominant axis, the detour amount, the first detour side
TurnsBegin(x1, y1, x2, y2, w, max_segment, jitter, going_right) ==
    [cx |-> x1, cy |-> y1, tx |-> x2, ty |-> y2, w |-> w, k |-> max_segment,
     horiz |-> Abs(x2 - x1) > Abs(y2 - y1),
     detour |-> Max(2, max_segment \div 3 + jitter),
     right |-> going_right, iter |-> 0, left |-> 0, dt |-> 0]

WithinOne == Abs(rt.cx - rt.tx) <= 1 /\ Abs(rt.cy - rt.ty) <= 1

\* the position and the target on the dominant axis
MainPos == IF rt.horiz THEN rt.cx ELSE rt.cy

MainTarget == IF rt.horiz THEN rt.tx ELSE rt.ty

\* the head of the for loop, lines 490-495: leave after 20 passes or within
\* one cell of the target, else draw the length of the next segment
TurnsLoop ==
    /\ pc = "loop"
    /\ IF rt.iter >= MaxIterations \/ WithinOne
       THEN pc' = "final" /\ UNCHANGED rt
       ELSE /\ \E jitter \in random.lengths :
                 rt' = [rt EXCEPT !.left =
                           Max(0, Min(rt.k + jitter, Abs(MainTarget - MainPos)))]
            /\ pc' = "advance"
    /\ UNCHANGED <<width, height, grid, areas, level_spec, random, raised, zl, cn, cv,
                   stats, hist>>

\* one step along the dominant axis, lines 496-503 and 518-525
AdvanceStep ==
    /\ pc = "advance"
    /\ rt.left > 0 /\ MainPos # MainTarget
    /\ LET nx == IF rt.horiz THEN Toward(rt.cx, rt.tx) ELSE rt.cx
           ny == IF rt.horiz THEN rt.cy ELSE Toward(rt.cy, rt.ty)
       IN /\ \E eff_w \in {GetSafeWidth(grid, nx, ny, rt.w, rt.horiz)} :
                 grid' = StampCorridor(grid, CrossSection(nx, ny, eff_w, rt.horiz))
          /\ rt' = [rt EXCEPT !.cx = nx, !.cy = ny, !.left = @ - 1]
    /\ UNCHANGED <<width, height, areas, level_spec, random, pc, raised, zl, cn, cv,
                   stats, hist>>

\* the segment is walked, lines 505-506 and 527-528: detour sideways when
\* still more than a cell short on the dominant axis, else the next pass
AdvanceDone ==
    /\ pc = "advance"
    /\ ~(rt.left > 0 /\ MainPos # MainTarget)
    /\ IF Abs(MainTarget - MainPos) > 1
       THEN /\ \E jitter \in random.detours :
                 LET side == (IF rt.right THEN rt.detour ELSE -rt.detour) + jitter
                 IN rt' = [rt EXCEPT !.left = 0, !.dt =
                             IF rt.horiz
                             THEN Max(1, Min(height - 2, rt.cy + side))
                             ELSE Max(1, Min(width - 2, rt.cx + side))]
            /\ pc' = "detour"
       ELSE /\ rt' = [rt EXCEPT !.left = 0, !.iter = @ + 1]
            /\ pc' = "loop"
    /\ UNCHANGED <<width, height, grid, areas, level_spec, random, raised, zl, cn, cv,
                   stats, hist>>

\* one step of the detour, lines 507-514 and 529-536
DetourStep ==
    /\ pc = "detour"
    /\ (IF rt.horiz THEN rt.cy ELSE rt.cx) # rt.dt
    /\ LET nx == IF rt.horiz THEN rt.cx ELSE Toward(rt.cx, rt.dt)
           ny == IF rt.horiz THEN Toward(rt.cy, rt.dt) ELSE rt.cy
       IN /\ \E eff_w \in {GetSafeWidth(grid, nx, ny, rt.w, ~rt.horiz)} :
                 grid' = StampCorridor(grid, CrossSection(nx, ny, eff_w, ~rt.horiz))
          /\ rt' = [rt EXCEPT !.cx = nx, !.cy = ny]
    /\ UNCHANGED <<width, height, areas, level_spec, random, pc, raised, zl, cn, cv,
                   stats, hist>>

\* the detour is walked, lines 515 and 537: the side flips when
\* random.random() > 0.2, and the pass is over
DetourDone ==
    /\ pc = "detour"
    /\ (IF rt.horiz THEN rt.cy ELSE rt.cx) = rt.dt
    /\ \E flip \in random.flips :
          rt' = [rt EXCEPT !.right = IF flip THEN ~@ ELSE @, !.iter = @ + 1, !.dt = 0]
    /\ pc' = "loop"
    /\ UNCHANGED <<width, height, grid, areas, level_spec, random, raised, zl, cn, cv,
                   stats, hist>>

\* lines 539-545: the run along x to the target
FinalXStep ==
    /\ pc = "final"
    /\ rt.cx # rt.tx
    /\ LET nx == Toward(rt.cx, rt.tx)
       IN /\ \E eff_w \in {GetSafeWidth(grid, nx, rt.cy, rt.w, TRUE)} :
                 grid' = StampCorridor(grid, CrossSection(nx, rt.cy, eff_w, TRUE))
          /\ rt' = [rt EXCEPT !.cx = nx]
    /\ UNCHANGED <<width, height, areas, level_spec, random, pc, raised, zl, cn, cv,
                   stats, hist>>

\* lines 546-552: then the run along y to the target
FinalYStep ==
    /\ pc = "final"
    /\ rt.cx = rt.tx /\ rt.cy # rt.ty
    /\ LET ny == Toward(rt.cy, rt.ty)
       IN /\ \E eff_w \in {GetSafeWidth(grid, rt.cx, ny, rt.w, FALSE)} :
                 grid' = StampCorridor(grid, CrossSection(rt.cx, ny, eff_w, FALSE))
          /\ rt' = [rt EXCEPT !.cy = ny]
    /\ UNCHANGED <<width, height, areas, level_spec, random, pc, raised, zl, cn, cv,
                   stats, hist>>

\* _draw_path_with_turns returns
TurnsReturn ==
    /\ pc = "final"
    /\ rt.cx = rt.tx /\ rt.cy = rt.ty
    /\ pc' = "path"
    /\ UNCHANGED <<width, height, grid, areas, level_spec, random, raised, zl, cn, rt, cv,
                   stats, hist>>

TurnsNext ==
    \/ TurnsLoop \/ AdvanceStep \/ AdvanceDone \/ DetourStep \/ DetourDone
    \/ FinalXStep \/ FinalYStep \/ TurnsReturn

----------------------------------------------------------------------------
(* _calculate_sightline_stats                                              *)

\* Mutant of the scan: the `else: c = 0` is dropped, so the count runs on
\* across closed cells
RECURSIVE LongestRunNoReset(_, _, _, _, _)
LongestRunNoReset(line, i, n, c, best) ==
    IF i = n THEN best
    ELSE IF IsOpenCell(line[i])
         THEN LongestRunNoReset(line, i + 1, n, c + 1, Max(best, c + 1))
         ELSE LongestRunNoReset(line, i + 1, n, c, best)

\* the scan of one row or column: c counts the open cells of the current
\* run, best is the longest run so far
RECURSIVE LongestRun(_, _, _, _, _)
LongestRun(line, i, n, c, best) ==
    IF i = n THEN best
    ELSE IF IsOpenCell(line[i])
         THEN LongestRun(line, i + 1, n, c + 1, Max(best, c + 1))
         ELSE LongestRun(line, i + 1, n, 0, best)

MaxHorizontalRun(g) ==
    SetMax({0} \cup {LongestRun(g[y], 0, width, 0, 0) : y \in 0..(height - 1)})

MaxVerticalRun(g) ==
    SetMax({0} \cup {LongestRun([y \in 0..(height - 1) |-> g[y][x]], 0, height, 0, 0) :
                        x \in 0..(width - 1)})

\* int(m * 1.4), line 596, in the arithmetic of the source: m is an int, 1.4
\* a double, the product the exact product rounded to a double (to nearest,
\* ties to even), and int() cuts the fraction off.  A whole number is the
\* sequence of its binary digits, the lowest first; a double is
\* mant * 2^shift / 2^52 with mant of at most 53 digits.

MantissaBits == 53

\* the double closest to 1.4: 0x3FF6666666666666, mantissa 0x16666666666666
DoubleOnePointFour ==
    [i \in 1..MantissaBits |->
        IF i = MantissaBits \/ (i - 1) % 4 \in {1, 2} THEN 1 ELSE 0]

\* the digits of bits * m + carry, from digit i on
RECURSIVE TimesInt(_, _, _, _)
TimesInt(bits, m, i, carry) ==
    IF i > Len(bits)
    THEN IF carry = 0 THEN <<>>
         ELSE <<carry % 2>> \o TimesInt(bits, m, i, carry \div 2)
    ELSE CHOOSE digits \in
            {<<v % 2>> \o TimesInt(b, k, j, v \div 2) :
                v \in {bits[i] * m + carry}, b \in {bits}, k \in {m}, j \in {i + 1}} : TRUE

\* bits + 1
RECURSIVE PlusOne(_)
PlusOne(bits) ==
    IF bits = <<>> THEN <<1>>
    ELSE IF bits[1] = 0 THEN <<1>> \o Tail(bits)
    ELSE <<0>> \o PlusOne(Tail(bits))

\* a whole number of more than 53 digits becomes a double: the digits below
\* the top 53 are dropped, to nearest, ties to even
RoundToDouble(bits) ==
    LET drop == Len(bits) - MantissaBits
    IN IF drop <= 0 THEN [mant |-> bits, shift |-> 0]
       ELSE LET kept == SubSeq(bits, drop + 1, Len(bits))
                sticky == \E i \in 1..(drop - 1) : bits[i] = 1
                up == bits[drop] = 1 /\ (sticky \/ kept[1] = 1)
            IN [mant |-> IF up THEN PlusOne(kept) ELSE kept, shift |-> drop]

RECURSIVE BitsValue(_)
BitsValue(bits) == IF bits = <<>> THEN 0 ELSE bits[1] + 2 * BitsValue(Tail(bits))

\* int(d) of a double d >= 0 below 2^31: the digits above the binary point
IntOfDouble(d) ==
    BitsValue(SubSeq(d.mant, (MantissaBits - 1) - d.shift + 1, Len(d.mant)))

\* Mutant of line 596: round() in place of int()
EstimatedDiagonalRounded(m) == (14 * m + 5) \div 10

\* int(m * 1.4)
EstimatedDiagonal(m) ==
    IF m = 0 THEN 0
    ELSE CHOOSE n \in
            {IntOfDouble(d) :
                d \in {RoundToDouble(product) :
                          product \in {TimesInt(DoubleOnePointFour, k, 1, 0) : k \in {m}}}} : TRUE

\* lines 584-598: the two scans are made once each, then the dict is built
CalculateSightlineStats(g) ==
    CHOOSE result \in
        {[max_horizontal_sightline |-> max_h,
          max_vertical_sightline |-> max_v,
          estimated_max_diagonal |-> est] :
            max_h \in {MaxHorizontalRun(g)}, max_v \in {MaxVerticalRun(g)},
            est \in {EstimatedDiagonal(Max(MaxHorizontalRun(g), MaxVerticalRun(g)))}} : TRUE

----------------------------------------------------------------------------
(* SpecRoute: one call of _draw_path_with_turns, as _create_path_with_     *)
(* corners makes it (endpoints a cell inside the border, width >= 1,       *)
(* max_segment below 999), on an empty grid.                               *)

RouteWidth == 9

RouteHeight == 9

\* [x1, y1, x2, y2]: a diagonal (the dominant axis is y) and a flatter path
\* walked the other way (the dominant axis is x)
RouteEndpoints == {<<1, 1, 7, 7>>, <<7, 6, 1, 2>>}

\* max_consecutive_open
RouteSegments == {3}

MaxRouteWidth == 2

InitRoute ==
    /\ width = RouteWidth /\ height = RouteHeight
    /\ grid = EmptyGrid(RouteWidth, RouteHeight)
    /\ areas = <<>>
    /\ level_spec = [zones |-> <<>>] @@ NoConnect
    /\ random = AllDraws
    /\ pc = "loop"
    /\ raised = "none"
    /\ zl = ZlInit /\ cn = CnInit /\ cv = CvInit /\ stats = StatsInit
    /\ \E e \in RouteEndpoints, w \in 1..MaxRouteWidth, k \in RouteSegments,
          jitter \in -1..2, going_right \in BOOLEAN :
          rt = TurnsBegin(e[1], e[2], e[3], e[4], w, k, jitter, going_right)
    /\ hist = HistInit(EmptyGrid(RouteWidth, RouteHeight))

SpecRoute == InitRoute /\ [][TurnsNext]_vars

----------------------------------------------------------------------------
(* The Router: the claims                                                  *)

\* C3: with max_consecutive_open = k, one route call on an empty grid never
\* leaves a straight horizontal or vertical run of open cells longer than
\* k + 2 + the corridor width.
C3_RunsBounded ==
    hist.entry = EmptyGrid(width, height) =>
        /\ MaxHorizontalRun(grid) <= rt.k + 2 + rt.w
        /\ MaxVerticalRun(grid) <= rt.k + 2 + rt.w

----------------------------------------------------------------------------
(* The Topology Connector, _connect_areas.  A string of the specification  *)
(* that the code takes apart is a sequence of one-character strings.       *)

Str3Lane == <<"3", "-", "l", "a", "n", "e">>

\* str.lower(), on the letters the styles of the model are written in
LowerChar(c) ==
    CASE c = "L" -> "l" [] c = "A" -> "a" [] c = "N" -> "n" [] c = "E" -> "e"
      [] OTHER -> c

Lower(str) == [i \in 1..Len(str) |-> LowerChar(str[i])]

\* sub in str
Contains(str, sub) ==
    \E i \in 0..(Len(str) - Len(sub)) : SubSeq(str, i + 1, i + Len(sub)) = sub

\* str.split("-")[0]: what stands before the first "-"
SplitHead(str) ==
    LET dashes == {i \in 1..Len(str) : str[i] = "-"}
    IN IF dashes = {} THEN str ELSE SubSeq(str, 1, SetMin(dashes) - 1)

\* str.strip(), of blanks
RECURSIVE Strip(_)
Strip(str) ==
    IF str # <<>> /\ Head(str) = " " THEN Strip(Tail(str))
    ELSE IF str # <<>> /\ str[Len(str)] = " " THEN Strip(SubSeq(str, 1, Len(str) - 1))
    ELSE str

Digits == <<"0", "1", "2", "3", "4", "5", "6", "7", "8", "9">>

DigitValue(c) == (CHOOSE i \in 1..10 : Digits[i] = c) - 1

IsDigit(c) == \E i \in 1..10 : Digits[i] = c

RECURSIVE DigitsValue(_, _)
DigitsValue(str, acc) ==
    IF str = <<>> THEN acc
    ELSE IF Head(str) = "_" THEN DigitsValue(Tail(str), acc)
    ELSE DigitsValue(Tail(str), 10 * acc + DigitValue(Head(str)))

\* int(str): [ok, value]; blanks around, one sign, digits with single
\* underscores between them; anything else is a ValueError
ParseInt(str) ==
    LET t == Strip(str)
        signed == t # <<>> /\ Head(t) \in {"+", "-"}
        body == IF signed THEN Tail(t) ELSE t
        ok == /\ body # <<>>
              /\ \A i \in 1..Len(body) : IsDigit(body[i]) \/ body[i] = "_"
              /\ body[1] # "_" /\ body[Len(body)] # "_"
              /\ \A i \in 1..(Len(body) - 1) : ~(body[i] = "_" /\ body[i + 1] = "_")
        magnitude == DigitsValue(body, 0)
    IN [ok |-> ok,
        value |-> IF ~ok THEN 0
                  ELSE IF signed /\ Head(t) = "-" THEN -magnitude ELSE magnitude]

\* Mutant of lines 351-354: int(style) in place of int(style.split("-")[0])
NumLanesWholeString(style) ==
    IF Contains(Lower(style), <<"l", "a", "n", "e">>) /\ ParseInt(style).ok
    THEN ParseInt(style).value
    ELSE 3

\* lines 351-354: 3 lanes unless the style holds "lane" and starts with an
\* integer
NumLanes(style) ==
    IF Contains(Lower(style), <<"l", "a", "n", "e">>) /\ ParseInt(SplitHead(style)).ok
    THEN ParseInt(SplitHead(style)).value
    ELSE 3

\* what self.areas.get(key) returns for a key that is not in the table
None == [x |-> 0, y |-> 0, w |-> 0, h |-> 0, name |-> "None", type |-> EMPTY,
         shape |-> "None"]

AreasGet(d, key) ==
    IF \E i \in 1..Len(d) : d[i].key = key
    THEN d[CHOOSE i \in 1..Len(d) : d[i].key = key].zone
    ELSE None

\* `if t_spawn`: None is falsy, a zone (a dict with keys) is truthy
Truthy(zone) == zone # None

\* k.startswith("site_") and k.startswith("mid"), on the keys generate_from_json files
IsSiteKey(key) == key \in {"site_A", "site_B", "site_C"}

IsMidKey(key) == \E i \in 1..Len(MidNames) : MidNames[i] = key

\* [v for k, v in self.areas.items() if ...]: in the order of the table
SitesOf(d) ==
    LET sel == SelectSeq(d, LAMBDA e : IsSiteKey(e.key))
    IN [i \in 1..Len(sel) |-> sel[i].zone]

MidsOf(d) ==
    LET sel == SelectSeq(d, LAMBDA e : IsMidKey(e.key))
    IN [i \in 1..Len(sel) |-> sel[i].zone]

CenterX(a) == a.x + a.w \div 2

CenterY(a) == a.y + a.h \div 2

\* the Manhattan distance between the centres of two zones
AreaDistance(from_area, a) ==
    Abs(CenterX(a) - CenterX(from_area)) + Abs(CenterY(a) - CenterY(from_area))

\* the place of target i once the targets are sorted by distance; the sort
\* is stable, so equal distances keep the order of the list
DistanceRank(from_area, target_areas, i) ==
    1 + Cardinality({j \in 1..Len(target_areas) :
            \/ AreaDistance(from_area, target_areas[j])
                   < AreaDistance(from_area, target_areas[i])
            \/ /\ AreaDistance(from_area, target_areas[j])
                   = AreaDistance(from_area, target_areas[i])
               /\ j < i})

\* _find_closest_area: min() returns the first of the closest targets
FindClosestArea(from_area, target_areas) ==
    IF target_areas = <<>> THEN None
    ELSE target_areas[CHOOSE i \in 1..Len(target_areas) :
                         DistanceRank(from_area, target_areas, i) = 1]

\* _find_n_closest_areas
FindNClosestAreas(from_area, target_areas, n) ==
    IF target_areas = <<>> THEN <<>>
    ELSE [r \in 1..Min(Max(n, 0), Len(target_areas)) |->
             target_areas[CHOOSE i \in 1..Len(target_areas) :
                             DistanceRank(from_area, target_areas, i) = r]]

\* one call of _create_path_with_corners(area1, area2, ...)
Call(area1, area2) == [a |-> area1, b |-> area2]

\* mids.index(mid): the first place that holds an equal zone
IndexOf(list, e) == SetMin({i \in 1..Len(list) : list[i] = e})

\* _connect_mid_network: the calls made for mids[i] and the mids after it
RECURSIVE MidNetworkFrom(_, _)
MidNetworkFrom(mids, i) ==
    IF i > Len(mids) THEN <<>>
    ELSE LET other_mids == SelectSeq(mids, LAMBDA m : IndexOf(mids, m) # i)
             close == FindNClosestAreas(mids[i], other_mids, Min(2, Len(other_mids)))
             kept == SelectSeq(close,
                        LAMBDA c : IndexOf(mids, mids[i]) < IndexOf(mids, c))
         IN [j \in 1..Len(kept) |-> Call(mids[i], kept[j])] \o MidNetworkFrom(mids, i + 1)

ConnectMidNetwork(mids) == IF Len(mids) <= 1 THEN <<>> ELSE MidNetworkFrom(mids, 1)

\* for site in sites: two calls each, towards or from the two spawns
SpawnSiteCalls(t_spawn, ct_spawn, sites, through) ==
    [i \in 1..(2 * Len(sites)) |->
        IF i % 2 = 1 THEN Call(t_spawn, sites[(i + 1) \div 2])
        ELSE IF through THEN Call(sites[i \div 2], ct_spawn)
        ELSE Call(ct_spawn, sites[i \div 2])]

\* for site in sites: for mid in the two closest mids
SiteMidCalls(sites, mids) ==
    LET n == Min(2, Len(mids))
    IN [i \in 1..(n * Len(sites)) |->
           LET site == sites[(i - 1) \div n + 1]
           IN Call(site, FindNClosestAreas(site, mids, n)[((i - 1) % n) + 1])]

\* from one area to each of the listed ones
FanCalls(from_area, targets) ==
    [i \in 1..Len(targets) |-> Call(from_area, targets[i])]

\* for i: for j > i: sites[i] -> sites[j]
SitePairCalls(sites) ==
    LET pairs == {p \in (1..Len(sites)) \X (1..Len(sites)) : p[1] < p[2]}
        rank(p) == 1 + Cardinality({q \in pairs :
                        q[1] < p[1] \/ (q[1] = p[1] /\ q[2] < p[2])})
    IN [r \in 1..Cardinality(pairs) |->
           LET p == CHOOSE q \in pairs : rank(q) = r
           IN Call(sites[p[1]], sites[p[2]])]

\* lines 363-371
TwoLaneCalls(t_spawn, ct_spawn, sites) ==
    IF Truthy(t_spawn) /\ Truthy(ct_spawn)
    THEN SpawnSiteCalls(t_spawn, ct_spawn, sites, TRUE)
    ELSE <<>>

\* Mutant of the 3-lane branch: the `if t_spawn` and `if ct_spawn` tests of
\* lines 382 and 387 are dropped.
ThreeLaneCallsUnguarded(t_spawn, ct_spawn, sites, mids, extra) ==
    (IF Truthy(t_spawn) /\ Truthy(ct_spawn)
     THEN SpawnSiteCalls(t_spawn, ct_spawn, sites, FALSE) ELSE <<>>)
    \o (IF mids # <<>>
        THEN <<Call(t_spawn, FindClosestArea(t_spawn, mids)),
               Call(ct_spawn, FindClosestArea(ct_spawn, mids))>>
             \o SiteMidCalls(sites, mids)
        ELSE <<>>)
    \o (IF Len(sites) >= 2 /\ extra THEN <<Call(sites[1], sites[2])>> ELSE <<>>)

\* lines 372-401; extra is random.random() < 0.3
ThreeLaneCalls(t_spawn, ct_spawn, sites, mids, extra) ==
    (IF Truthy(t_spawn) /\ Truthy(ct_spawn)
     THEN SpawnSiteCalls(t_spawn, ct_spawn, sites, FALSE) ELSE <<>>)
    \o (IF mids # <<>>
        THEN (IF Truthy(t_spawn)
              THEN <<Call(t_spawn, FindClosestArea(t_spawn, mids))>> ELSE <<>>)
             \o (IF Truthy(ct_spawn)
                 THEN <<Call(ct_spawn, FindClosestArea(ct_spawn, mids))>> ELSE <<>>)
             \o SiteMidCalls(sites, mids)
        ELSE <<>>)
    \o (IF Len(sites) >= 2 /\ extra THEN <<Call(sites[1], sites[2])>> ELSE <<>>)

\* Mutant of the 4-lane branch: the loop over the pairs of sites, lines
\* 423-427, is dropped.
FourLaneCallsNoSitePairs(t_spawn, ct_spawn, sites, mids) ==
    (IF Truthy(t_spawn)
     THEN FanCalls(t_spawn, sites)
          \o (IF mids # <<>>
              THEN FanCalls(t_spawn, FindNClosestAreas(t_spawn, mids, Min(2, Len(mids))))
              ELSE <<>>)
     ELSE <<>>)
    \o (IF Truthy(ct_spawn)
        THEN FanCalls(ct_spawn, sites)
             \o (IF mids # <<>>
                 THEN FanCalls(ct_spawn,
                               FindNClosestAreas(ct_spawn, mids, Min(2, Len(mids))))
                 ELSE <<>>)
        ELSE <<>>)
    \o (IF mids # <<>> THEN SiteMidCalls(sites, mids) ELSE <<>>)

\* lines 402-433
FourLaneCalls(t_spawn, ct_spawn, sites, mids) ==
    (IF Truthy(t_spawn)
     THEN FanCalls(t_spawn, sites)
          \o (IF mids # <<>>
              THEN FanCalls(t_spawn, FindNClosestAreas(t_spawn, mids, Min(2, Len(mids))))
              ELSE <<>>)
     ELSE <<>>)
    \o (IF Truthy(ct_spawn)
        THEN FanCalls(ct_spawn, sites)
             \o (IF mids # <<>>
                 THEN FanCalls(ct_spawn,
                               FindNClosestAreas(ct_spawn, mids, Min(2, Len(mids))))
                 ELSE <<>>)
        ELSE <<>>)
    \o SitePairCalls(sites)
    \o (IF mids # <<>> THEN SiteMidCalls(sites, mids) ELSE <<>>)

\* the calls of _create_path_with_corners that _connect_areas makes, in order
LaneCalls(num_lanes, t_spawn, ct_spawn, sites, mids, extra) ==
    IF num_lanes = 2 THEN TwoLaneCalls(t_spawn, ct_spawn, sites)
    ELSE IF num_lanes = 3 THEN ThreeLaneCalls(t_spawn, ct_spawn, sites, mids, extra)
    ELSE IF num_lanes >= 4 THEN FourLaneCalls(t_spawn, ct_spawn, sites, mids)
    ELSE <<>>

\* _connect_areas up to its first call of the Router: the settings, the
\* roles of the table, and the calls to make in their order (the table does
\* not change while they are made)
ConnectAreas ==
    /\ pc = "connect" /\ raised = "none"
    /\ LET connectivity == level_spec.connectivity
           sightline_control == level_spec.sightline_control
           style == Get(connectivity, "style", Str3Lane)
           corridor_width == Get(connectivity, "max_chokepoint_width", 2)
           max_segment == IF Get(sightline_control, "enabled", FALSE)
                          THEN Get(sightline_control, "max_consecutive_open", 8)
                          ELSE 999
           t_spawn == AreasGet(areas, "T_spawn")
           ct_spawn == AreasGet(areas, "CT_spawn")
           sites == SitesOf(areas)
           mids == MidsOf(areas)
           num_lanes == NumLanes(style)
       IN \E extra \in (IF num_lanes = 3 /\ Len(sites) >= 2 THEN BOOLEAN ELSE {FALSE}) :
             cn' = [plan |-> (IF Len(mids) > 1 THEN ConnectMidNetwork(mids) ELSE <<>>)
                             \o LaneCalls(num_lanes, t_spawn, ct_spawn, sites, mids, extra),
                    calls |-> <<>>,
                    width |-> corridor_width,
                    max_segment |-> max_segment,
                    num_lanes |-> num_lanes]
    /\ pc' = "path"
    /\ UNCHANGED <<width, height, grid, areas, level_spec, random, raised, zl, rt,
                   cv, stats, hist>>

\* lines 471-473
VariedWidth(path_length, w, jitter) ==
    IF path_length > 15 THEN Max(2, w + jitter)
    ELSE IF path_length > 8 THEN Max(IF w = 1 THEN 2 ELSE 1, w + jitter)
    ELSE Max(1, w + jitter)

\* an endpoint of a path: the centre of the zone, jittered, kept one cell
\* inside the border
PathEnd(center, jitter, n) == Max(1, Min(n - 2, center + jitter))

\* the next call of _create_path_with_corners: a plain L when sightline
\* control is off, else the first lines of _draw_path_with_turns
CreatePathWithCorners ==
    /\ pc = "path" /\ raised = "none"
    /\ cn.plan # <<>>
    /\ LET area1 == Head(cn.plan).a
           area2 == Head(cn.plan).b
       IN IF area1 = None \/ area2 = None
          THEN /\ raised' = "TypeError"
               /\ UNCHANGED <<grid, cn, rt, pc>>
          ELSE /\ \E j1 \in random.jitters, j2 \in random.jitters,
                     j3 \in random.jitters, j4 \in random.jitters,
                     jw \in random.jitters :
                    LET x1 == PathEnd(CenterX(area1), j1, width)
                        y1 == PathEnd(CenterY(area1), j2, height)
                        x2 == PathEnd(CenterX(area2), j3, width)
                        y2 == PathEnd(CenterY(area2), j4, height)
                        path_length == Abs(x2 - x1) + Abs(y2 - y1)
                        varied_width == VariedWidth(path_length, cn.width, jw)
                    IN IF cn.max_segment >= 999
                       THEN /\ grid' = DrawSegment(grid, x1, y1, x2, y2, varied_width)
                            /\ UNCHANGED <<rt, pc>>
                       ELSE /\ \E jitter \in random.amounts, going_right \in random.sides :
                                 rt' = TurnsBegin(x1, y1, x2, y2, varied_width,
                                                  cn.max_segment, jitter, going_right)
                            /\ pc' = "loop"
                            /\ UNCHANGED grid
               /\ cn' = [cn EXCEPT !.plan = Tail(@),
                                   !.calls = Append(@, Head(cn.plan))]
               /\ UNCHANGED raised
    /\ UNCHANGED <<width, height, areas, level_spec, random, zl, cv, stats, hist>>

\* _connect_areas returns: on to the cover objects
ConnectDone ==
    /\ pc = "path" /\ raised = "none"
    /\ cn.plan = <<>>
    /\ pc' = "cover"
    /\ UNCHANGED <<width, height, grid, areas, level_spec, random, raised, zl, cn,
                   rt, cv, stats, hist>>

----------------------------------------------------------------------------
(* The Cover Placer: _place_cover_objects, _can_place_cover and            *)
(* _walls_are_connected.                                                   *)

\* the chance of a density, in thousandths
Chance(density_name) ==
    CASE density_name = "low" -> 80
      [] density_name = "medium" -> 120
      [] density_name = "high" -> 180
      [] OTHER -> 120


Neighbours8(c) ==
    {<<c[1] + dx, c[2] + dy>> : dx \in -1..1, dy \in -1..1} \ {c}

\* the in-grid neighbours of (x, y) that are not open
WallNeighbors(g, x, y) ==
    {n \in Neighbours8(<<x, y>>) : InGrid(n[1], n[2]) /\ ~IsOpenCell(g[n[2]][n[1]])}

\* the list is built dy first, then dx: its first entry
FirstOf(cells) ==
    CHOOSE c \in cells : \A d \in cells : c[2] < d[2] \/ (c[2] = d[2] /\ c[1] <= d[1])

\* the breadth-first search of _walls_are_connected: the cells of wall_cells
\* reached from the visited ones over 8-neighbour steps
RECURSIVE Visited(_, _)
Visited(visited, wall_cells) ==
    LET more == {c \in wall_cells \ visited : \E v \in visited : c \in Neighbours8(v)}
    IN IF more = {} THEN visited ELSE Visited(visited \cup more, wall_cells)

WallsAreConnected(wall_cells) ==
    IF Cardinality(wall_cells) <= 1 THEN TRUE
    ELSE Cardinality(Visited({FirstOf(wall_cells)}, wall_cells)) = Cardinality(wall_cells)

CanPlaceCover(g, x, y) ==
    \/ Cardinality(WallNeighbors(g, x, y)) <= 1
    \/ WallsAreConnected(WallNeighbors(g, x, y))

\* the place of a cell in the row-by-row scan
ScanIndex(x, y) == y * width + x

\* the places of the CORRIDOR cells the scan has still to visit
CorridorsAhead ==
    {i \in ScanIndex(cv.x, cv.y)..(width * height - 1) :
        grid[i \div width][i % width] = CORRIDOR}

\* Mutant of lines 119-123: the `enabled` test is dropped and the scan always
\* runs
PlaceCoverObjectsAlways ==
    /\ pc = "cover" /\ raised = "none"
    /\ pc' = "scan" /\ cv' = [x |-> 0, y |-> 0]
    /\ UNCHANGED <<width, height, grid, areas, level_spec, random, raised, zl, cn,
                   rt, stats, hist>>

\* lines 116-123 and 599-604: cover objects are placed only when enabled
PlaceCoverObjects ==
    /\ pc = "cover" /\ raised = "none"
    /\ IF Get(level_spec.cover_objects, "enabled", FALSE)
       THEN pc' = "scan" /\ cv' = [x |-> 0, y |-> 0]
       ELSE pc' = "stats" /\ UNCHANGED cv
    /\ UNCHANGED <<width, height, grid, areas, level_spec, random, raised, zl, cn,
                   rt, stats, hist>>

\* lines 605-611: the scan moves on to the next CORRIDOR cell, which becomes
\* COVER when the roll is below the chance and _can_place_cover allows it
CoverStep ==
    /\ pc = "scan" /\ raised = "none"
    /\ CorridorsAhead # {}
    /\ \E at \in {SetMin(CorridorsAhead)} :
       LET c == <<at % width, at \div width>>
           chance == Chance(Get(level_spec.cover_objects, "density", "medium"))
       IN /\ \E roll \in random.rolls :
                grid' = IF roll < chance /\ CanPlaceCover(grid, c[1], c[2])
                        THEN [grid EXCEPT ![c[2]][c[1]] = COVER]
                        ELSE grid
          /\ cv' = IF c[1] + 1 < width THEN [x |-> c[1] + 1, y |-> c[2]]
                   ELSE [x |-> 0, y |-> c[2] + 1]
    /\ UNCHANGED <<width, height, areas, level_spec, random, pc, raised, zl, cn, rt,
                   stats, hist>>

\* the scan is over
CoverDone ==
    /\ pc = "scan" /\ raised = "none"
    /\ CorridorsAhead = {}
    /\ pc' = "stats"
    /\ cv' = [x |-> 0, y |-> height]
    /\ UNCHANGED <<width, height, grid, areas, level_spec, random, raised, zl, cn,
                   rt, stats, hist>>

\* lines 127-143: the sightline stats, and the result is returned
ReturnResult ==
    /\ pc = "stats" /\ raised = "none"
    /\ \E result \in {CalculateSightlineStats(grid)} : stats' = result
    /\ pc' = "done"
    /\ UNCHANGED <<width, height, grid, areas, level_spec, random, raised, zl, cn,
                   rt, cv, hist>>

----------------------------------------------------------------------------
(* generate_from_json *)

Next ==
    \/ NextPlace
    \/ ConnectAreas \/ CreatePathWithCorners \/ TurnsNext \/ ConnectDone
    \/ PlaceCoverObjects \/ CoverStep \/ CoverDone
    \/ ReturnResult

----------------------------------------------------------------------------
(* Spec: generate_from_json from a fresh generator, on grids small enough  *)
(* for every phase to be walked through.                                   *)

Str(a, b, c, d, e, f) == <<a, b, c, d, e, f>>

\* a spawn and a site at opposite corners of a 12 x 8 grid, joined by a
\* plain corridor, with cover objects
CoverLevel ==
    [w |-> 12, h |-> 8,
     zones |-> <<Request("spawn", "T", "small", Loc(0, 0), "", "square"),
                 Request("site", "A", "small", Loc(100, 100), "", "square")>>,
     connectivity |-> [style |-> Str("4", "-", "l", "a", "n", "e"),
                       max_chokepoint_width |-> 3],
     sightline_control |-> EmptyDict,
     cover_objects |-> [enabled |-> TRUE, density |-> "high"],
     random |-> [AllDraws EXCEPT !.offsets = {0}, !.jitters = {0}]]

\* a spawn and a mid on a 12 x 8 grid, joined under sightline control; the
\* style and the cover objects are left out
TurnsLevel ==
    [w |-> 12, h |-> 8,
     zones |-> <<Request("spawn", "T", "small", Loc(0, 0), "", "square"),
                 Request("other", "", "", NoLoc, "", ""),
                 Request("mid", "", "small", Loc(100, 100), "", "square")>>,
     connectivity |-> [max_chokepoint_width |-> 1],
     sightline_control |-> [enabled |-> TRUE, max_consecutive_open |-> 3],
     cover_objects |-> EmptyDict,
     random |-> [AllDraws EXCEPT !.offsets = {0}, !.jitters = {0}]]

\* a large site asked for at (0, 0) of a 10 x 10 grid, and a spawn that finds
\* no room beside it
BoundaryLevel ==
    [w |-> 10, h |-> 10,
     zones |-> BoundaryZones,
     connectivity |-> [style |-> Str("2", "-", "L", "a", "n", "e")],
     sightline_control |-> [enabled |-> FALSE, max_consecutive_open |-> 3],
     cover_objects |-> [enabled |-> TRUE],
     random |-> AllDraws]

Levels == {CoverLevel, TurnsLevel, BoundaryLevel}

Init ==
    \E in \in Levels :
        /\ width = in.w /\ height = in.h
        /\ grid = EmptyGrid(in.w, in.h)
        /\ areas = <<>>
        /\ level_spec = [zones |-> in.zones, connectivity |-> in.connectivity,
                         sightline_control |-> in.sightline_control,
                         cover_objects |-> in.cover_objects]
        /\ random = in.random
        /\ pc = "zones"
        /\ raised = "none"
        /\ zl = ZlInit
        /\ cn = CnInit /\ rt = RtInit /\ cv = CvInit /\ stats = StatsInit
        /\ hist = HistInit(EmptyGrid(in.w, in.h))

Spec == Init /\ [][Next]_vars

\* the program is one thread of control: it takes its next step whenever
\* it has one
FairSpec == Spec /\ WF_vars(Next)

----------------------------------------------------------------------------
(* The Cover Placer: the claims                                            *)

Adjacent8(a, b) == a # b /\ Abs(a[1] - b[1]) <= 1 /\ Abs(a[2] - b[2]) <= 1

\* a set of cells is one 8-connected cluster: however it is split in two,
\* a cell of one part touches a cell of the other
OneCluster(cells) ==
    \A part \in SUBSET cells :
        (part # {} /\ part # cells) =>
            \E a \in part, b \in cells \ part : Adjacent8(a, b)

CoverCells == {c \in (0..(width - 1)) \X (0..(height - 1)) : grid[c[2]][c[1]] = COVER}

\* C9: once the cover placement has finished, the wall neighbours of every
\* COVER cell of the grid number at most one or form a single 8-connected
\* cluster.
C9_CoverWallsOneCluster ==
    pc \in {"stats", "done"} =>
        \A c \in CoverCells :
            \/ Cardinality(WallNeighbors(grid, c[1], c[2])) <= 1
            \/ OneCluster(WallNeighbors(grid, c[1], c[2]))

----------------------------------------------------------------------------
(* SpecScenario: the zone phase of the two-spawn, two-site level on a      *)
(* 40 x 40 grid.  The generator yields no placement offset and, where the  *)
(* shape is left open, picks among ScenarioShapes.                         *)

ScenarioShapes == {"organic"}

\* the organic draws of the scenario: a shape grown at two corners, and a
\* shape eroded at its four corners
ScenarioScripts == {1, 2}

ScenarioZones ==
    <<Request("spawn", "T", "medium", Loc(15, 85), "edge", ""),
      Request("spawn", "CT", "medium", Loc(85, 15), "edge", ""),
      Request("site", "A", "large", Loc(20, 20), "", ""),
      Request("site", "B", "medium", Loc(80, 80), "", "")>>

InitScenario ==
    /\ width = 40 /\ height = 40
    /\ grid = EmptyGrid(40, 40)
    /\ areas = <<>>
    /\ level_spec = [zones |-> ScenarioZones] @@ NoConnect
    /\ random = [AllDraws EXCEPT !.offsets = {0}, !.shapes = ScenarioShapes,
                                 !.scripts = ScenarioScripts]
    /\ pc = "zones"
    /\ raised = "none"
    /\ zl = ZlInit
    /\ cn = CnInit /\ rt = RtInit /\ cv = CvInit /\ stats = StatsInit
    /\ hist = HistInit(EmptyGrid(40, 40))

\* the scenario has no areas: SkipArea is not part of it
NextScenario == CreateZoneBegin \/ CreateZoneRetry \/ CreateZonePlaced \/ ZonesDone

SpecScenario == InitScenario /\ [][NextScenario]_vars

\* C10: every run of the scenario returns a zone table whose keys are
\* exactly T_spawn, CT_spawn, site_A and site_B.
C10_AllFourZones ==
    pc = "connect" => Keys(areas) = {"T_spawn", "CT_spawn", "site_A", "site_B"}

----------------------------------------------------------------------------
(* generate_from_json: the claims                                          *)

\* C4: in every state during and after generate_from_json the grid has
\* height rows of width cells, every cell holds one of the ten cell types,
\* and no write has landed outside the grid (none has raised).
C4_GridKeepsShape ==
    /\ raised = "none"
    /\ DOMAIN grid = 0..(height - 1)
    /\ \A y \in 0..(height - 1) :
          /\ DOMAIN grid[y] = 0..(width - 1)
          /\ \A x \in 0..(width - 1) : grid[y][x] \in CellTypes

\* C4 witness: generation is over after stamping a zone whose cells reach
\* past the border of the grid
C4_Witness ==
    /\ pc = "done"
    /\ \E i \in 1..Len(hist.stamps) : hist.stamps[i].stamped # hist.stamps[i].cells

\* C5: generate_from_json terminates: no placement makes more than 50
\* attempts, no route runs its segment loop more than 20 times, and every
\* run reaches the return of the result.
C5_Terminates ==
    /\ [](zl.attempt < MaxAttempts /\ rt.iter <= MaxIterations)
    /\ <>(pc = "done")

\* C5 witness: generation is over after a route whose segment loop ran all
\* of its 20 passes
C5_Witness == pc = "done" /\ rt.iter = MaxIterations

----------------------------------------------------------------------------
(* SpecConnect: _connect_areas on a 20 x 12 grid, from every zone table    *)
(* the zone phase can leave behind for two spawns, two sites and three     *)
(* mids, each a 3 x 3 square, and for a range of styles.                   *)

ConnectWidth == 20

ConnectHeight == 12

\* the requests and the corners their zones were placed at
ConnectPlaced ==
    <<[req |-> Request("spawn", "T", "small", Loc(15, 25), "", "square"), x |-> 2, y |-> 2],
      [req |-> Request("spawn", "CT", "small", Loc(75, 67), "", "square"), x |-> 14, y |-> 7],
      [req |-> Request("site", "A", "small", Loc(75, 25), "", "square"), x |-> 14, y |-> 2],
      [req |-> Request("site", "B", "small", Loc(15, 67), "", "square"), x |-> 2, y |-> 7],
      [req |-> Request("mid", "", "small", Loc(35, 25), "", "square"), x |-> 6, y |-> 2],
      [req |-> Request("mid", "", "small", Loc(55, 67), "", "square"), x |-> 10, y |-> 7],
      [req |-> Request("mid", "", "small", Loc(55, 25), "", "square"), x |-> 10, y |-> 2]>>

\* the zone tables: each spawn and each site present or not, and the first
\* 0..3 mids
ConnectChoices ==
    {pick \in SUBSET (1..Len(ConnectPlaced)) :
        \A i \in pick : i > 5 => (i - 1) \in pick}

\* the number of mids among the first n picked entries
MidsBefore(placed, n) == Cardinality({i \in 1..n : placed[i].req.kind = "mid"})

TableOf(placed) ==
    [i \in 1..Len(placed) |->
        LET e == placed[i]
            mid_index == MidsBefore(placed, i - 1)
        IN [key |-> ZoneKey(e.req, mid_index),
            zone |-> ZoneOf(GetShapeCells(e.x, e.y, 3, "square", NoDraw),
                            ZoneName(e.req, mid_index), ZoneType(e.req), "square")]]

RECURSIVE GridOf(_, _)
GridOf(g, placed) ==
    IF placed = <<>> THEN g
    ELSE GridOf(PlaceShapedZone(g, GetShapeCells(Head(placed).x, Head(placed).y, 3,
                                                 "square", NoDraw),
                                ZoneType(Head(placed).req)).grid,
                Tail(placed))

ConnectStyles ==
    {[style |-> Str("1", "-", "l", "a", "n", "e")],
     [style |-> Str("2", "-", "l", "a", "n", "e")],
     [style |-> Str3Lane],
     [style |-> Str("4", "-", "L", "a", "n", "e")],
     [style |-> <<" ", "5", "-", "l", "a", "n", "e">>],
     [style |-> <<"6", "_", "l", "a", "n", "e", "s">>],
     [style |-> <<"o", "p", "e", "n">>],
     [style |-> <<"4", "-", "w", "a", "y">>],
     [max_chokepoint_width |-> 1]}

InitConnect ==
    /\ width = ConnectWidth /\ height = ConnectHeight
    /\ \E pick \in ConnectChoices, connectivity \in ConnectStyles :
          LET placed == SelectSeq(ConnectPlaced,
                            LAMBDA e : \E i \in pick : ConnectPlaced[i] = e)
          IN /\ grid = GridOf(EmptyGrid(ConnectWidth, ConnectHeight), placed)
             /\ areas = TableOf(placed)
             /\ level_spec = [zones |-> [i \in 1..Len(placed) |-> placed[i].req],
                              connectivity |-> connectivity,
                              sightline_control |-> EmptyDict,
                              cover_objects |-> EmptyDict]
             /\ zl = [ZlInit EXCEPT !.zi = Len(placed) + 1, !.ret = "zone",
                                    !.mid_index = MidsBefore(placed, Len(placed))]
             /\ hist = HistInit(GridOf(EmptyGrid(ConnectWidth, ConnectHeight), placed))
    /\ random = [AllDraws EXCEPT !.jitters = {0}]
    /\ pc = "connect"
    /\ raised = "none"
    /\ cn = CnInit /\ rt = RtInit /\ cv = CvInit /\ stats = StatsInit

NextConnect == ConnectAreas \/ CreatePathWithCorners \/ ConnectDone

SpecConnect == InitConnect /\ [][NextConnect]_vars

ZonesOf(d) == {d[i].zone : i \in 1..Len(d)}

\* C8: whatever roles the zone table holds and whatever the lane count,
\* _connect_areas raises nothing and calls the Router only with endpoints
\* that are zones of the table.
C8_NoAbsentEndpoint ==
    /\ raised = "none"
    /\ \A i \in 1..Len(cn.calls) :
          cn.calls[i].a \in ZonesOf(areas) /\ cn.calls[i].b \in ZonesOf(areas)

\* C8 witness: _connect_areas has returned after making calls on a table
\* that has mids and a CT spawn but no T spawn
C8_Witness ==
    /\ pc = "cover"
    /\ AreasGet(areas, "T_spawn") = None /\ AreasGet(areas, "CT_spawn") # None
    /\ MidsOf(areas) # <<>>
    /\ cn.calls # <<>>
----------------------------------------------------------------------------
(* Frame conditions of the Cover Placer and of the Router                   *)

AllCells == (0..(width - 1)) \X (0..(height - 1))

ZoneTags == {SPAWN_T, SPAWN_CT, BOMBSITE, MID_AREA}

\* the cells whose tag a step changes
ChangedCells == {c \in AllCells : grid'[c[2]][c[1]] # grid[c[2]][c[1]]}

\* a step of the Cover Placer changes a cell only from CORRIDOR to COVER
CoverStepFrame ==
    pc \in {"cover", "scan"} =>
        \A c \in ChangedCells :
            grid[c[2]][c[1]] = CORRIDOR /\ grid'[c[2]][c[1]] = COVER

\* C11: a step of the Cover Placer changes a cell only from CORRIDOR to
\* COVER; when cover_objects is absent or not enabled, the grid returned
\* holds no COVER cell.
C11_CoverOnlyRetagsCorridor ==
    /\ [][CoverStepFrame]_vars
    /\ [](pc = "done" /\ ~Get(level_spec.cover_objects, "enabled", FALSE)
            => CoverCells = {})

\* C11 witness: the scan is over, it has retagged a cell and has left
\* another corridor cell as it was
C11_Witness ==
    /\ pc = "stats" /\ CoverCells # {}
    /\ \E c \in AllCells : grid[c[2]][c[1]] = CORRIDOR

\* the positions of generate_from_json inside a Router call
RouterPositions == {"path", "loop", "advance", "detour", "final"}

\* a step of a Router call changes a cell only from EMPTY to CORRIDOR
RouterStepFrame ==
    pc \in RouterPositions =>
        \A c \in ChangedCells :
            grid[c[2]][c[1]] = EMPTY /\ grid'[c[2]][c[1]] = CORRIDOR

\* C12: a step of a Router call changes a cell only if the cell is EMPTY,
\* and only to CORRIDOR: zone cells and earlier corridors stay as they are.
C12_RouterFillsEmptyOnly ==
    [][RouterStepFrame]_vars

\* C12 witness: the walk of a Router call stands on a zone cell, corridor
\* cells behind it, and the zone cell still holds its tag
C12_Witness ==
    /\ pc = "final" /\ InGrid(rt.cx, rt.cy)
    /\ grid[rt.cy][rt.cx] \in ZoneTags
    /\ \E c \in AllCells : grid[c[2]][c[1]] = CORRIDOR
----------------------------------------------------------------------------
(* SpecDefaults: generate_from_json on specifications that leave optional  *)
(* fields out.  A level is the full one below with a set of fields         *)
(* omitted: up to two fields, all but up to two, all of them, or none.     *)

OptionalFields ==
    {"spawn_zones", "bomb_sites", "areas", "connectivity", "sightline_control",
     "cover_objects", "size", "location", "position_preference", "shape"}

OmitSets ==
    {O \in SUBSET OptionalFields :
        Cardinality(O) <= 2 \/ Cardinality(O) >= Cardinality(OptionalFields) - 2}

\* a zone request without the per-zone fields of O
Omit(req, O) ==
    [req EXCEPT !.size = IF "size" \in O THEN "" ELSE @,
                !.location = IF "location" \in O THEN NoLoc ELSE @,
                !.preference = IF "position_preference" \in O THEN "" ELSE @,
                !.shape = IF "shape" \in O THEN "" ELSE @]

OmitAll(reqs, O) == [i \in 1..Len(reqs) |-> Omit(reqs[i], O)]

FullSpawns == <<Request("spawn", "T", "small", Loc(0, 0), "any", "square")>>

FullSites == <<Request("site", "A", "small", Loc(100, 0), "edge", "square")>>

FullAreas ==
    <<Request("other", "", "", NoLoc, "", ""),
      Request("mid", "", "small", Loc(0, 100), "", "square")>>

DefaultsLevel(O) ==
    [w |-> 18, h |-> 16,
     zones |-> (IF "spawn_zones" \in O THEN <<>> ELSE OmitAll(FullSpawns, O))
               \o (IF "bomb_sites" \in O THEN <<>> ELSE OmitAll(FullSites, O))
               \o (IF "areas" \in O THEN <<>>
                     ELSE <<FullAreas[1]>> \o OmitAll(<<FullAreas[2]>>, O)),
     connectivity |-> IF "connectivity" \in O THEN EmptyDict
                      ELSE [style |-> Str("4", "-", "l", "a", "n", "e"),
                            max_chokepoint_width |-> 1],
     sightline_control |-> IF "sightline_control" \in O THEN EmptyDict
                           ELSE [enabled |-> TRUE, max_consecutive_open |-> 3],
     cover_objects |-> IF "cover_objects" \in O THEN EmptyDict
                       ELSE [enabled |-> TRUE, density |-> "low"],
     random |-> [AllDraws EXCEPT !.offsets = {0}, !.shapes = {"plus"},
                                 !.jitters = {0}, !.amounts = {0},
                                 !.sides = {TRUE}, !.lengths = {0},
                                 !.detours = {0}, !.flips = {TRUE},
                                 !.rolls = {50}]]

InitDefaults ==
    \E O \in OmitSets :
        LET in == DefaultsLevel(O)
        IN /\ width = in.w /\ height = in.h
           /\ grid = EmptyGrid(in.w, in.h)
           /\ areas = <<>>
           /\ level_spec = [zones |-> in.zones, connectivity |-> in.connectivity,
                            sightline_control |-> in.sightline_control,
                            cover_objects |-> in.cover_objects]
           /\ random = in.random
           /\ pc = "zones"
           /\ raised = "none"
           /\ zl = ZlInit
           /\ cn = CnInit /\ rt = RtInit /\ cv = CvInit /\ stats = StatsInit
           /\ hist = HistInit(EmptyGrid(in.w, in.h))

SpecDefaults == InitDefaults /\ [][Next]_vars

\* _connect_areas has read its settings and has made no call yet
AtFirstPath == pc = "path" /\ cn.calls = <<>>

\* the calls of the 3-lane branch on the table as it stands
ThreeLanePlans ==
    {(IF Len(MidsOf(areas)) > 1 THEN ConnectMidNetwork(MidsOf(areas)) ELSE <<>>)
        \o ThreeLaneCalls(AreasGet(areas, "T_spawn"), AreasGet(areas, "CT_spawn"),
                          SitesOf(areas), MidsOf(areas), extra) :
     extra \in BOOLEAN}

\* C13: a specification that leaves optional fields out never makes
\* generate_from_json raise, and the documented defaults apply: a zone
\* without a size is medium (6 plus or minus 1), without a style the 3-lane
\* calls are made, without a width the corridor width is 2, without
\* sightline control segments are unbounded (999), without cover objects no
\* cell is COVER; the empty specification returns an all-EMPTY grid, an
\* empty zone table and sightline stats of 0.
C13_OmittedFieldsDefault ==
    /\ raised = "none"
    /\ (pc = "attempt" /\ CurrentRequest.size = "") => zl.size \in 5..7
    /\ AtFirstPath =>
          /\ "style" \notin DOMAIN level_spec.connectivity => cn.plan \in ThreeLanePlans
          /\ "max_chokepoint_width" \notin DOMAIN level_spec.connectivity => cn.width = 2
          /\ level_spec.sightline_control = EmptyDict => cn.max_segment = 999
    /\ pc = "done" =>
          /\ level_spec.cover_objects = EmptyDict => CoverCells = {}
          /\ (level_spec.zones = <<>> /\ level_spec.connectivity = EmptyDict
                /\ level_spec.sightline_control = EmptyDict
                /\ level_spec.cover_objects = EmptyDict) =>
                /\ grid = EmptyGrid(width, height)
                /\ areas = <<>>
                /\ stats = [max_horizontal_sightline |-> 0,
                            max_vertical_sightline |-> 0,
                            estimated_max_diagonal |-> 0]

\* C13 witness: a run whose zones gave no size and whose specification gave
\* no connectivity has placed zones, joined them and returned
C13_Witness ==
    /\ pc = "done" /\ raised = "none"
    /\ level_spec.connectivity = EmptyDict
    /\ \E i \in 1..Len(level_spec.zones) :
          level_spec.zones[i].kind # "other" /\ level_spec.zones[i].size = ""
    /\ Len(areas) >= 2 /\ Len(cn.calls) >= 1
----------------------------------------------------------------------------
(* The Analyzer: the claims.  SpecStats is _calculate_sightline_stats on   *)
(* grids that hold one corridor as _draw_segment strokes it: h cells along *)
(* row 1, then v cells down the column it ends in.                         *)

StatsSize == 47

InitStats ==
    /\ width = StatsSize /\ height = StatsSize
    /\ \E h \in 0..(StatsSize - 2), v \in 0..(StatsSize - 2) :
          grid = IF h = 0 \/ v = 0 THEN EmptyGrid(StatsSize, StatsSize)
                 ELSE DrawSegment(EmptyGrid(StatsSize, StatsSize), 1, 1, h, v, 1)
    /\ areas = <<>>
    /\ level_spec = [zones |-> <<>>, connectivity |-> EmptyDict,
                     sightline_control |-> EmptyDict, cover_objects |-> EmptyDict]
    /\ random = AllDraws
    /\ pc = "stats"
    /\ raised = "none"
    /\ zl = ZlInit
    /\ cn = CnInit /\ rt = RtInit /\ cv = CvInit /\ stats = StatsInit
    /\ hist = HistInit(EmptyGrid(0, 0))

SpecStats == InitStats /\ [][ReturnResult]_vars

\* the open tags of the specification
OpenTags == {CORRIDOR, BOMBSITE, MID_AREA, SPAWN_T, SPAWN_CT, CONNECTOR}

\* the lengths of the runs of consecutive open cells in a row, in a column
HorizontalRuns ==
    {n \in 0..width :
        \E y \in 0..(height - 1), x \in 0..(width - n) :
            \A i \in 0..(n - 1) : grid[y][x + i] \in OpenTags}

VerticalRuns ==
    {n \in 0..height :
        \E x \in 0..(width - 1), y \in 0..(height - n) :
            \A i \in 0..(n - 1) : grid[y + i][x] \in OpenTags}

\* C14: the stats returned give the length of the longest run of
\* consecutive open cells in a row and in a column of the final grid, EMPTY
\* and COVER cells breaking a run.
C14_StatsAreLongestRuns ==
    pc = "done" =>
        /\ stats.max_horizontal_sightline = SetMax(HorizontalRuns)
        /\ stats.max_vertical_sightline = SetMax(VerticalRuns)

\* C14 witness: stats are returned for a grid in which a COVER cell stands
\* between two open cells of its row
C14_Witness ==
    /\ pc = "done"
    /\ \E y \in 0..(height - 1), x \in 1..(width - 2) :
          /\ grid[y][x] = COVER
          /\ grid[y][x - 1] \in OpenTags /\ grid[y][x + 1] \in OpenTags

LongestOfStats == Max(stats.max_horizontal_sightline, stats.max_vertical_sightline)

\* C15: the estimated diagonal is floor(1.4 * max), that is (14 * max) div 10,
\* max being the longer of the horizontal and the vertical run.
C15_DiagonalIsFloor ==
    pc = "done" => stats.estimated_max_diagonal = (14 * LongestOfStats) \div 10

\* C16 as stated: the estimated diagonal is 1.4 * max rounded to the nearest
\* integer.
C16_DiagonalIsRounded ==
    pc = "done" => stats.estimated_max_diagonal = (14 * LongestOfStats + 5) \div 10

\* C16, amended: the estimated diagonal is 1.4 * max cut off towards zero:
\* never above 1.4 * max, less than 2 below it, and equal to
\* floor(1.4 * max) whenever 1.4 * max is not a whole number.
C16_DiagonalIsTruncated ==
    pc = "done" =>
        /\ 10 * stats.estimated_max_diagonal <= 14 * LongestOfStats
        /\ 14 * LongestOfStats - 10 * stats.estimated_max_diagonal < 20
        /\ (14 * LongestOfStats) % 10 # 0 =>
              stats.estimated_max_diagonal = (14 * LongestOfStats) \div 10

\* C16 witness: stats are returned for a longest run whose 1.4-fold lies
\* closer to the next integer, and the estimate is the integer below
C16_Witness ==
    /\ pc = "done"
    /\ (14 * LongestOfStats) % 10 >= 5
    /\ stats.estimated_max_diagonal = (14 * LongestOfStats) \div 10
----------------------------------------------------------------------------
(* Zones stay where they were stamped                                      *)

\* a step leaves every cell that holds a zone tag as it is
ZoneCellsKept ==
    \A c \in AllCells : grid[c[2]][c[1]] \in ZoneTags => grid'[c[2]][c[1]] = grid[c[2]][c[1]]

\* C18: a cell stamped with a zone tag keeps that tag until generation ends:
\* no later zone placement, Router call or Cover Placer step changes it.
C18_ZoneCellsKeepTag == [][ZoneCellsKept]_vars
----------------------------------------------------------------------------
(* SpecMids: _connect_areas on zone tables that hold mids only, two to     *)
(* four of them, each a 3 x 3 square at one of eight corners of a 22 x 12  *)
(* grid, in every order the zone phase can file them in.                   *)

MidsWidth == 22

MidsHeight == 12

MidCorners == {2, 6, 11, 17} \X {2, 7}

MaxMids == 4

\* the corners of the mids, in the order of the table
MidTables ==
    {t \in UNION {[1..n -> MidCorners] : n \in 2..MaxMids} :
        \A i, j \in 1..Len(t) : i # j => t[i] # t[j]}

MidsPlaced(t) ==
    [i \in 1..Len(t) |->
        [req |-> Request("mid", "", "small", NoLoc, "", "square"),
         x |-> t[i][1], y |-> t[i][2]]]

InitMids ==
    /\ width = MidsWidth /\ height = MidsHeight
    /\ \E t \in MidTables :
          LET placed == MidsPlaced(t)
          IN /\ grid = GridOf(EmptyGrid(MidsWidth, MidsHeight), placed)
             /\ areas = TableOf(placed)
             /\ level_spec = [zones |-> [i \in 1..Len(placed) |-> placed[i].req],
                              connectivity |-> EmptyDict,
                              sightline_control |-> EmptyDict,
                              cover_objects |-> EmptyDict]
             /\ zl = [ZlInit EXCEPT !.zi = Len(placed) + 1, !.ret = "zone",
                                    !.mid_index = Len(placed)]
             /\ hist = HistInit(GridOf(EmptyGrid(MidsWidth, MidsHeight), placed))
    /\ random = [AllDraws EXCEPT !.jitters = {0}]
    /\ pc = "connect"
    /\ raised = "none"
    /\ cn = CnInit /\ rt = RtInit /\ cv = CvInit /\ stats = StatsInit

SpecMids == InitMids /\ [][NextConnect]_vars

\* the Manhattan distance between the centres of the bounding boxes
CentreDistance(a, b) ==
    Abs((a.x + a.w \div 2) - (b.x + b.w \div 2))
        + Abs((a.y + a.h \div 2) - (b.y + b.h \div 2))

\* n is one of the 2 nearest other mids of m whichever way ties are broken:
\* at most one further mid lies as near to m as n does
AmongTwoNearest(m, n, mids) ==
    /\ n # m
    /\ Cardinality({k \in mids \ {m, n} : CentreDistance(m, k) <= CentreDistance(m, n)}) <= 1

\* the Router calls made for the unordered pair {m, n}
CallsFor(m, n) ==
    {i \in 1..Len(cn.calls) : {cn.calls[i].a, cn.calls[i].b} = {m, n}}

\* C19: once _connect_areas is through, with more than one mid in the
\* table, the Router has been invoked exactly once for every mid and each
\* of its 2 nearest other mids.
C19_NearestMidsJoinedOnce ==
    (pc = "cover" /\ Len(MidsOf(areas)) > 1) =>
        \A m, n \in ZonesOf(areas) :
            AmongTwoNearest(m, n, ZonesOf(areas)) => Cardinality(CallsFor(m, n)) = 1
----------------------------------------------------------------------------
(* The 3-lane rule                                                         *)

\* the zones of the table in a role
SpawnsPresent ==
    {areas[i].zone : i \in {j \in 1..Len(areas) : areas[j].key \in {"T_spawn", "CT_spawn"}}}

SitesPresent == {areas[i].zone : i \in {j \in 1..Len(areas) : IsSiteKey(areas[j].key)}}

MidsPresent == {areas[i].zone : i \in {j \in 1..Len(areas) : IsMidKey(areas[j].key)}}

\* a mid no other mid lies nearer to the zone than
NearestMids(zone) ==
    {m \in MidsPresent :
        \A k \in MidsPresent : CentreDistance(zone, m) <= CentreDistance(zone, k)}

\* C20: with lane count 3, once _connect_areas is through, the Router has
\* been invoked for every present spawn and every site, for every present
\* spawn and a nearest mid, and for every site and each of its 2 nearest
\* mids.
C20_ThreeLaneEdges ==
    (pc = "cover" /\ Get(level_spec.connectivity, "style", Str3Lane) = Str3Lane) =>
        /\ \A spawn \in SpawnsPresent :
              /\ \A site \in SitesPresent : CallsFor(spawn, site) # {}
              /\ MidsPresent # {} => \E m \in NearestMids(spawn) : CallsFor(spawn, m) # {}
        /\ \A site \in SitesPresent, m \in MidsPresent :
              AmongTwoNearest(site, m, MidsPresent \cup {site}) => CallsFor(site, m) # {}
----------------------------------------------------------------------------
(* The 2-lane and the 4-lane rules                                         *)

\* the style of the level, as _connect_areas reads it
StyleOf == Get(level_spec.connectivity, "style", Str3Lane)

\* C21: with lane count 2, once _connect_areas is through, the Router has
\* been invoked for every present spawn and every site, and no call joins a
\* mid to a spawn or a site.
C21_TwoLaneEdges ==
    (pc = "cover" /\ StyleOf = Str("2", "-", "l", "a", "n", "e")) =>
        /\ \A spawn \in SpawnsPresent, site \in SitesPresent : CallsFor(spawn, site) # {}
        /\ \A m \in MidsPresent, z \in SpawnsPresent \cup SitesPresent : CallsFor(m, z) = {}

\* the styles of SpecConnect with a lane count of 4 or more
FourLaneStyles == {Str("4", "-", "L", "a", "n", "e"), <<" ", "5", "-", "l", "a", "n", "e">>}

\* m may be taken for one of the 2 nearest mids of the zone: fewer than 2
\* mids lie nearer
MayBeAmongTwoNearest(zone, m) ==
    Cardinality({k \in MidsPresent : CentreDistance(zone, k) < CentreDistance(zone, m)}) < 2

\* C22: with lane count 4 or higher, once _connect_areas is through, the
\* Router has been invoked for every present spawn and every site, for every
\* present spawn and each of its 2 nearest mids, exactly once for every pair
\* of sites, for every site and each of its 2 nearest mids, and every call
\* is one of these or joins two mids.
C22_FourLaneEdges ==
    (pc = "cover" /\ StyleOf \in FourLaneStyles) =>
        /\ \A spawn \in SpawnsPresent, site \in SitesPresent : CallsFor(spawn, site) # {}
        /\ \A z \in SpawnsPresent \cup SitesPresent, m \in MidsPresent :
              AmongTwoNearest(z, m, MidsPresent \cup {z}) => CallsFor(z, m) # {}
        /\ \A s1, s2 \in SitesPresent : s1 # s2 => Cardinality(CallsFor(s1, s2)) = 1
        /\ \A i \in 1..Len(cn.calls) :
              \E a, b \in ZonesOf(areas) :
                 /\ {cn.calls[i].a, cn.calls[i].b} = {a, b}
                 /\ \/ a \in MidsPresent /\ b \in MidsPresent
                    \/ a \in SpawnsPresent /\ b \in SitesPresent
                    \/ a \in SitesPresent /\ b \in SitesPresent /\ a # b
                    \/ /\ a \in SpawnsPresent \cup SitesPresent
                       /\ b \in MidsPresent /\ MayBeAmongTwoNearest(a, b)

\* C22 witness: _connect_areas is through under "4-Lane" on a table of two
\* spawns, two sites and three mids, and a site was not joined to the mid
\* farthest from it
C22_Witness ==
    /\ pc = "cover" /\ StyleOf = Str("4", "-", "L", "a", "n", "e")
    /\ Cardinality(SpawnsPresent) = 2 /\ Cardinality(SitesPresent) = 2
    /\ Cardinality(MidsPresent) = 3
    /\ \E site \in SitesPresent, m \in MidsPresent : CallsFor(site, m) = {}
----------------------------------------------------------------------------
(* SpecWidth: the first call of _create_path_with_corners that             *)
(* _connect_areas makes under sightline control, for a spawn and a site    *)
(* at every distance along a row and every base width.                     *)

WidthGridWidth == 22

WidthGridHeight == 7

MaxBaseWidth == 3

\* T_spawn in the corner, site_A in the same row, its corner at x
WidthPlaced(x) ==
    <<[req |-> Request("spawn", "T", "small", Loc(0, 0), "", "square"), x |-> 1, y |-> 2],
      [req |-> Request("site", "A", "small", Loc(100, 0), "", "square"), x |-> x, y |-> 2]>>

InitWidth ==
    /\ width = WidthGridWidth /\ height = WidthGridHeight
    /\ \E x \in 4..(WidthGridWidth - 4), w \in 1..MaxBaseWidth :
          LET placed == WidthPlaced(x)
          IN /\ grid = GridOf(EmptyGrid(WidthGridWidth, WidthGridHeight), placed)
             /\ areas = TableOf(placed)
             /\ level_spec = [zones |-> [i \in 1..Len(placed) |-> placed[i].req],
                              connectivity |-> [style |-> Str("4", "-", "l", "a", "n", "e"),
                                                max_chokepoint_width |-> w],
                              sightline_control |-> [enabled |-> TRUE,
                                                     max_consecutive_open |-> 3],
                              cover_objects |-> EmptyDict]
             /\ zl = [ZlInit EXCEPT !.zi = Len(placed) + 1, !.ret = "zone"]
             /\ hist = HistInit(GridOf(EmptyGrid(WidthGridWidth, WidthGridHeight), placed))
    /\ random = [AllDraws EXCEPT !.amounts = {0}, !.sides = {TRUE}]
    /\ pc = "connect"
    /\ raised = "none"
    /\ cn = CnInit /\ rt = RtInit /\ cv = CvInit /\ stats = StatsInit

NextWidth == ConnectAreas \/ CreatePathWithCorners

SpecWidth == InitWidth /\ [][NextWidth]_vars

\* the floor the effective width is held to, for a path of length l and a
\* base width w: 2 for a long path, 2 for a middling one unless w is 1, else 1
WidthFloor(l, w) ==
    IF l > 15 THEN 2
    ELSE IF l > 8 THEN (IF w = 1 THEN 1 ELSE 2)
    ELSE 1

\* a call of _create_path_with_corners hands _draw_path_with_turns the
\* endpoints and a width: the base width plus a jitter, held to the floor
WidthStep ==
    (pc = "path" /\ pc' = "loop") =>
        LET l == Abs(rt'.tx - rt'.cx) + Abs(rt'.ty - rt'.cy)
        IN \E jitter \in -1..1 : rt'.w = Max(WidthFloor(l, cn.width), cn.width + jitter)

\* C23: the effective corridor width of a path of Manhattan length L and
\* base width W is W plus a jitter in {-1, 0, 1}, floored at 2 when L > 15,
\* floored at 2 when 8 < L <= 15 unless W is 1 (then floored at 1), and
\* floored at 1 when L <= 8.
C23_WidthFloors == [][WidthStep]_vars
----------------------------------------------------------------------------
(* The lane count                                                          *)

\* the part of the style before its first "-", the whole style when it has none
StylePrefix(style) ==
    IF \E i \in 1..Len(style) : style[i] = "-"
    THEN SubSeq(style, 1, (CHOOSE i \in 1..Len(style) :
                              style[i] = "-" /\ \A j \in 1..(i - 1) : style[j] # "-") - 1)
    ELSE style

\* the number a string of decimal digits writes
RECURSIVE Decimal(_)
Decimal(digits) ==
    IF digits = <<>> THEN 0
    ELSE 10 * Decimal(SubSeq(digits, 1, Len(digits) - 1)) + DigitValue(digits[Len(digits)])

\* the style begins with an integer: its first character is a digit
BeginsWithInteger(style) == style # <<>> /\ IsDigit(style[1])

\* the digits the style begins with
LeadingDigits(style) ==
    SubSeq(style, 1, CHOOSE n \in 1..Len(style) :
                        /\ \A i \in 1..n : IsDigit(style[i])
                        /\ n = Len(style) \/ ~IsDigit(style[n + 1]))

\* C24 as stated: once _connect_areas has read the style, the lane count is
\* the leading integer of every style that begins with an integer, and 3
\* when the style is absent or holds no digit.
C24_LaneCountIsLeadingInteger ==
    pc = "path" =>
        /\ ("style" \in DOMAIN level_spec.connectivity /\ BeginsWithInteger(StyleOf))
              => cn.num_lanes = Decimal(LeadingDigits(StyleOf))
        /\ ("style" \notin DOMAIN level_spec.connectivity
                \/ \A i \in 1..Len(StyleOf) : ~IsDigit(StyleOf[i]))
              => cn.num_lanes = 3

\* the style holds the word "lane", in any letter case
HoldsLane(style) ==
    \E i \in 1..(Len(style) - 3) :
        /\ style[i] \in {"l", "L"} /\ style[i + 1] \in {"a", "A"}
        /\ style[i + 2] \in {"n", "N"} /\ style[i + 3] \in {"e", "E"}

\* digits, with blanks before and after them and nothing else
PlainNumber(str) ==
    \E i, j \in 1..Len(str) :
        /\ i <= j
        /\ \A k \in 1..Len(str) :
              IF k >= i /\ k <= j THEN IsDigit(str[k]) ELSE str[k] = " "

Letters == {"l", "a", "n", "e", "s", "o", "p", "w", "y", "L", "A", "N", "E"}

\* C24: once _connect_areas has read the style, the lane count is the
\* number written before the first "-" of a style that holds "lane" (blanks
\* around the digits allowed), and 3 when the style is absent, does not hold
\* "lane", or has nothing or a letter before its first "-".
C24_LaneCountParsed ==
    pc = "path" =>
        /\ "style" \notin DOMAIN level_spec.connectivity => cn.num_lanes = 3
        /\ "style" \in DOMAIN level_spec.connectivity =>
              /\ (HoldsLane(StyleOf) /\ PlainNumber(StylePrefix(StyleOf))) =>
                    cn.num_lanes =
                        Decimal(SelectSeq(StylePrefix(StyleOf), LAMBDA c : IsDigit(c)))
              /\ (\/ ~HoldsLane(StyleOf)
                  \/ StylePrefix(StyleOf) = <<>>
                  \/ \E i \in 1..Len(StylePrefix(StyleOf)) :
                        StylePrefix(StyleOf)[i] \in Letters) =>
                    cn.num_lanes = 3

\* C24 witness: _connect_areas has read a style that begins with an integer
\* and does not hold "lane", and made calls
C24_Witness ==
    /\ pc = "path" /\ "style" \in DOMAIN level_spec.connectivity
    /\ BeginsWithInteger(StyleOf) /\ ~HoldsLane(StyleOf)
    /\ cn.num_lanes = 3 /\ cn.plan # <<>>
----------------------------------------------------------------------------
(* The centreline of a Router call                                         *)

WalkPositions == {"loop", "advance", "detour", "final"}

\* a step of the walk moves to a 4-adjacent cell of the grid, and that cell
\* is not EMPTY once the step is made
WalkStep ==
    (pc \in WalkPositions /\ <<rt'.cx, rt'.cy>> # <<rt.cx, rt.cy>>) =>
        /\ Abs(rt'.cx - rt.cx) + Abs(rt'.cy - rt.cy) = 1
        /\ rt'.cx \in 0..(width - 1) /\ rt'.cy \in 0..(height - 1)
        /\ grid'[rt'.cy][rt'.cx] # EMPTY

\* the walk is left only on the target
WalkEnd ==
    (pc \in WalkPositions /\ pc' \notin WalkPositions) =>
        rt.cx = rt.tx /\ rt.cy = rt.ty /\ rt' = rt

\* no step of a Router call empties a cell
NothingEmptied ==
    pc \in RouterPositions =>
        \A c \in AllCells : grid[c[2]][c[1]] # EMPTY => grid'[c[2]][c[1]] # EMPTY

\* the direct mode: the cells from (x1, y1) along the row to x2 and from
\* there along the column to (x2, y2) are not EMPTY after the call, for
\* endpoints within a cell of the two centres
DirectCall ==
    (pc = "path" /\ cn'.calls # cn.calls /\ cn.max_segment >= 999 /\ raised' = "none") =>
        LET area1 == Head(cn.plan).a
            area2 == Head(cn.plan).b
        IN \E x1 \in (CenterX(area1) - 1)..(CenterX(area1) + 1),
              y1 \in (CenterY(area1) - 1)..(CenterY(area1) + 1),
              x2 \in (CenterX(area2) - 1)..(CenterX(area2) + 1),
              y2 \in (CenterY(area2) - 1)..(CenterY(area2) + 1) :
              /\ \A x \in Min(x1, x2)..Max(x1, x2) : grid'[y1][x] # EMPTY
              /\ \A y \in Min(y1, y2)..Max(y1, y2) : grid'[y][x2] # EMPTY

RouterCallFrame == WalkStep /\ WalkEnd /\ NothingEmptied /\ DirectCall

\* C25: in a Router call every step of the walk goes to a 4-adjacent cell,
\* which is not EMPTY after the step, the walk ends on the target, the direct
\* mode leaves the whole two-segment centreline not EMPTY, and no cell is
\* emptied while the Router runs: the endpoints are joined by a 4-connected
\* chain of non-empty cells.
C25_CentrelineJoined == [][RouterCallFrame]_vars

\* C25 witness: a walk of at least one detour has returned on its target,
\* and a cell beside a zone was made a corridor
C25_Witness ==
    /\ pc = "path" /\ cn.calls # <<>> /\ cn.max_segment < 999
    /\ rt.iter >= 1 /\ rt.cx = rt.tx /\ rt.cy = rt.ty
    /\ \E c \in AllCells : grid[c[2]][c[1]] = CORRIDOR
----------------------------------------------------------------------------
(* The walkable area across the Cover Placer                               *)

\* the open cells of the grid, and the cells the Cover Placer has retagged
\* (before it ran they were CORRIDOR, hence open)
OpenCells == {c \in AllCells : IsOpenCell(grid[c[2]][c[1]])}

Neighbours4(c) ==
    {<<c[1] + 1, c[2]>>, <<c[1] - 1, c[2]>>, <<c[1], c[2] + 1>>, <<c[1], c[2] - 1>>}

\* the cells joined to the seen ones by paths of 4-adjacent cells of `cells`
RECURSIVE Flood(_, _)
Flood(seen, cells) ==
    LET more == {c \in cells \ seen : Neighbours4(c) \cap seen # {}}
    IN IF more = {} THEN seen ELSE Flood(seen \cup more, cells)

\* SpecCover: _connect_areas and the Cover Placer on a 7 x 11 grid, for a
\* spawn and a site placed one above the other as near the left border as
\* zones get, joined under sightline control with cover objects: a detour of
\* the walk runs along the border.
CoverGridWidth == 7

CoverGridHeight == 11

CutPlaced ==
    <<[req |-> Request("spawn", "T", "small", Loc(0, 0), "", "square"), x |-> 2, y |-> 2],
      [req |-> Request("site", "A", "small", Loc(0, 100), "", "square"), x |-> 2, y |-> 6]>>

InitCover ==
    /\ width = CoverGridWidth /\ height = CoverGridHeight
    /\ grid = GridOf(EmptyGrid(CoverGridWidth, CoverGridHeight), CutPlaced)
    /\ areas = TableOf(CutPlaced)
    /\ level_spec = [zones |-> [i \in 1..Len(CutPlaced) |-> CutPlaced[i].req],
                     connectivity |-> [style |-> Str("4", "-", "l", "a", "n", "e"),
                                       max_chokepoint_width |-> 2],
                     sightline_control |-> [enabled |-> TRUE, max_consecutive_open |-> 3],
                     cover_objects |-> [enabled |-> TRUE, density |-> "high"]]
    /\ random = [AllDraws EXCEPT !.amounts = {1}, !.sides = {FALSE}, !.detours = {0},
                                 !.flips = {TRUE}, !.rolls = {50, 900}]
    /\ pc = "connect"
    /\ raised = "none"
    /\ zl = [ZlInit EXCEPT !.zi = Len(CutPlaced) + 1, !.ret = "zone"]
    /\ cn = CnInit /\ rt = RtInit /\ cv = CvInit /\ stats = StatsInit
    /\ hist = HistInit(GridOf(EmptyGrid(CoverGridWidth, CoverGridHeight), CutPlaced))

NextCover ==
    \/ ConnectAreas \/ CreatePathWithCorners \/ TurnsNext \/ ConnectDone
    \/ PlaceCoverObjects \/ CoverStep \/ CoverDone
    \/ ReturnResult

SpecCover == InitCover /\ [][NextCover]_vars

\* C26: when the Cover Placer has finished, two open cells that were joined
\* by a path of 4-adjacent open cells before it ran (when the COVER cells of
\* now were open too) are still joined by a path of 4-adjacent open cells.
C26_CoverKeepsWalkableJoined ==
    pc = "stats" =>
        \A a \in OpenCells :
            Flood({a}, OpenCells \cup CoverCells) \cap OpenCells = Flood({a}, OpenCells)

----------------------------------------------------------------------------
(* The target of a zone location, lines 145-193                            *)

MinSide == 10
MaxSide == 13

\* coordinates in hundredths, below, inside and above the unit interval
Fractions == {-50, 0, 20, 33, 50, 99, 100, 250}

Words == {"top-left", "top-right", "bottom-left", "bottom-right", "center",
          "top", "bottom", "left", "right"}

Locations ==
    {[form |-> f, x |-> x, y |-> y, word |-> ""] :
        f \in {"dict", "list"}, x \in Fractions, y \in Fractions}
    \cup {[form |-> "str", x |-> 50, y |-> 50, word |-> w] : w \in Words \cup {"middle"}}
    \cup {[form |-> f, x |-> 50, y |-> 50, word |-> ""] :
            f \in {"none", "bad", "list_short", "dict_word", "list_word"}}

InitLocation ==
    /\ width \in MinSide..MaxSide /\ height \in MinSide..MaxSide
    /\ grid = EmptyGrid(width, height)
    /\ areas = <<>>
    /\ \E location \in Locations :
          level_spec = [zones |-> <<Request("site", "A", "small", location, "", "square")>>,
                        connectivity |-> EmptyDict,
                        sightline_control |-> EmptyDict,
                        cover_objects |-> EmptyDict]
    /\ random = AllDraws
    /\ pc = "zones"
    /\ raised = "none"
    /\ zl = ZlInit
    /\ cn = CnInit /\ rt = RtInit /\ cv = CvInit /\ stats = StatsInit
    /\ hist = HistInit(EmptyGrid(width, height))

SpecLocation == InitLocation /\ [][CreateZoneBegin]_vars

\* a location the format accepts: an x/y mapping or a sequence of two
\* numbers, or one of the nine position keywords
ValidLocation(location) ==
    \/ location.form \in {"dict", "list"}
    \/ location.form = "str" /\ location.word \in Words

\* a coordinate held to the unit interval, in hundredths
Held(v) == IF v < 0 THEN 0 ELSE IF v > 100 THEN 100 ELSE v

\* _create_zone_with_spec has computed its target, or has been left by an
\* exception
TargetComputed == pc = "attempt" \/ raised # "none"

\* C27: once the target of a zone is computed, a location that is absent or
\* structurally invalid has given the centre (width div 2, height div 2)
\* and nothing was raised, and an x/y location has given each coordinate
\* held to [0, 1], multiplied by the grid dimension and truncated.
C27_LocationTarget ==
    TargetComputed =>
        LET location == level_spec.zones[1].location
        IN /\ ~ValidLocation(location) =>
                 /\ raised = "none"
                 /\ zl.tx = width \div 2 /\ zl.ty = height \div 2
           /\ location.form \in {"dict", "list"} =>
                 /\ raised = "none"
                 /\ 100 * zl.tx <= Held(location.x) * width
                 /\ Held(location.x) * width < 100 * (zl.tx + 1)
                 /\ 100 * zl.ty <= Held(location.y) * height
                 /\ Held(location.y) * height < 100 * (zl.ty + 1)

----------------------------------------------------------------------------
(* The T_shape rasterization, lines 285-292, as the zone phase stamps it   *)

TeeSide == 16

TeeInputs ==
    {Request("site", "A", size, Loc(x, y), "", "T_shape") :
        size \in {"small", "medium", "large"}, x \in {0, 50}, y \in {50, 100}}

InitTee ==
    /\ width = TeeSide /\ height = TeeSide
    /\ grid = EmptyGrid(TeeSide, TeeSide)
    /\ areas = <<>>
    /\ \E req \in TeeInputs : level_spec = [zones |-> <<req>>] @@ NoConnect
    /\ random = AllDraws
    /\ pc = "zones"
    /\ raised = "none"
    /\ zl = ZlInit
    /\ cn = CnInit /\ rt = RtInit /\ cv = CvInit /\ stats = StatsInit
    /\ hist = HistInit(EmptyGrid(TeeSide, TeeSide))

NextTee == CreateZoneBegin \/ CreateZonePlaced

SpecTee == InitTee /\ [][NextTee]_vars

\* the cells of the grid that carry the tag of a site
SiteCells ==
    {c \in (0..(width - 1)) \X (0..(height - 1)) : grid[c[2]][c[1]] = BOMBSITE}

\* a bar of height size/3 + 1 across the whole width, and below it a stem
\* of the columns a..b down to the last row, with the free columns left and
\* right of the stem differing by at most 1
CentredTee(cells, x, y, size) ==
    \E a \in 0..(size - 1), b \in 0..(size - 1) :
        /\ a <= b
        /\ a - (size - 1 - b) \in -1..1
        /\ cells = {c \in (x..(x + size - 1)) \X (y..(y + size - 1)) :
                       \/ c[2] - y < size \div 3 + 1
                       \/ c[1] - x \in a..b /\ c[2] - y >= size \div 3}

\* C28: a T_shape zone of a size from 3 to 10 is stamped as the union of a
\* full-width top bar of height size/3 + 1 and a stem over the rows size/3
\* to size - 1 that is horizontally centred under the bar.
C28_TeeCentred ==
    areas # <<>> =>
        LET zone == areas[1].zone
        IN /\ zone.w \in 3..10
           /\ CentredTee(SiteCells, zone.x, zone.y, zone.w)

----------------------------------------------------------------------------
(* The footprint of a filed zone, lines 247-259 and 301-336                *)

FootMinSide == 4
FootMaxSide == 6

FootInputs ==
    {Request("site", "A", size, Loc(x, 50), "", shape) :
        size \in {"small", "medium"}, x \in {0, 50}, shape \in {"organic", "plus"}}

InitFoot ==
    /\ width \in FootMinSide..FootMaxSide /\ height = width
    /\ grid = EmptyGrid(width, height)
    /\ areas = <<>>
    /\ \E req \in FootInputs : level_spec = [zones |-> <<req>>] @@ NoConnect
    /\ random = AllDraws
    /\ pc = "zones"
    /\ raised = "none"
    /\ zl = ZlInit
    /\ cn = CnInit /\ rt = RtInit /\ cv = CvInit /\ stats = StatsInit
    /\ hist = HistInit(EmptyGrid(width, height))

SpecFoot == InitFoot /\ [][NextScenario]_vars

\* the cells of the grid inside the bounding box of a zone that carry its tag
TaggedCells(zone) ==
    {c \in (0..(width - 1)) \X (0..(height - 1)) :
        /\ c[1] \in zone.x..(zone.x + zone.w - 1)
        /\ c[2] \in zone.y..(zone.y + zone.h - 1)
        /\ grid[c[2]][c[1]] = zone.type}

\* C29: every zone of the zone table has a non-empty footprint: the
\* rasterization it was made from yielded at least one cell, its w and h
\* are at least 1, and at least one cell of the grid was stamped for it.
C29_ZonesHaveFootprint ==
    \A i \in 1..Len(areas) :
        /\ hist.stamps[i].cells # {}
        /\ areas[i].zone.w >= 1 /\ areas[i].zone.h >= 1
        /\ TaggedCells(areas[i].zone) # {}

----------------------------------------------------------------------------
(* generate_from_json called again on the same LevelGenerator, lines 36-42 *)
(* and 137-143.  self.grid and self.areas refer to the pair of objects     *)
(* numbered Len(hist.heap) + 1; the pairs of earlier calls are in          *)
(* hist.heap, and a result holds the number of the pair it refers to.      *)

MaxCalls == 2

\* the levels of a generator of 12 x 8, with fewer draws
AgainLevels ==
    {[in EXCEPT !.random = [@ EXCEPT !.amounts = {1}, !.lengths = {0}, !.rolls = {50},
                                     !.sides = {TRUE}, !.detours = {0},
                                     !.flips = {TRUE}, !.shapes = {"square"}]] :
        in \in {CoverLevel, TurnsLevel}}

\* the locals of a call as they are when it is entered
EnterCall(in) ==
    /\ level_spec' = [zones |-> in.zones, connectivity |-> in.connectivity,
                      sightline_control |-> in.sightline_control,
                      cover_objects |-> in.cover_objects]
    /\ random' = in.random
    /\ pc' = "zones"
    /\ raised' = "none"
    /\ zl' = ZlInit
    /\ cn' = CnInit /\ rt' = RtInit /\ cv' = CvInit /\ stats' = StatsInit
    /\ UNCHANGED <<width, height>>

\* what the caller of the call just over holds: the result, if it returned
ResultsHeld ==
    IF pc = "done"
    THEN Append(hist.results, [ref |-> Len(hist.heap) + 1, grid |-> grid, areas |-> areas])
    ELSE hist.results

\* Mutant of lines 41-42: the grid is cleared row by row and the zone table
\* with clear(), so self.grid and self.areas stay the objects they were.
GenerateFromJsonInPlace ==
    /\ pc = "done" \/ raised # "none"
    /\ hist.calls < MaxCalls
    /\ \E in \in AgainLevels : in.w = width /\ in.h = height /\ EnterCall(in)
    /\ grid' = EmptyGrid(width, height)
    /\ areas' = <<>>
    /\ hist' = [HistInit(EmptyGrid(width, height)) EXCEPT
                    !.heap = hist.heap,
                    !.results = ResultsHeld,
                    !.calls = hist.calls + 1]

\* a later call is entered, after the earlier one returned or raised:
\* self.grid and self.areas are bound to new objects
GenerateFromJson ==
    /\ pc = "done" \/ raised # "none"
    /\ hist.calls < MaxCalls
    /\ \E in \in AgainLevels : in.w = width /\ in.h = height /\ EnterCall(in)
    /\ grid' = EmptyGrid(width, height)
    /\ areas' = <<>>
    /\ hist' = [HistInit(EmptyGrid(width, height)) EXCEPT
                    !.heap = Append(hist.heap, [grid |-> grid, areas |-> areas]),
                    !.results = ResultsHeld,
                    !.calls = hist.calls + 1]

InitAgain ==
    \E in \in AgainLevels :
        /\ width = in.w /\ height = in.h
        /\ grid = EmptyGrid(in.w, in.h)
        /\ areas = <<>>
        /\ level_spec = [zones |-> in.zones, connectivity |-> in.connectivity,
                         sightline_control |-> in.sightline_control,
                         cover_objects |-> in.cover_objects]
        /\ random = in.random
        /\ pc = "zones"
        /\ raised = "none"
        /\ zl = ZlInit
        /\ cn = CnInit /\ rt = RtInit /\ cv = CvInit /\ stats = StatsInit
        /\ hist = HistInit(EmptyGrid(in.w, in.h))

NextAgain == Next \/ GenerateFromJson

SpecAgain == InitAgain /\ [][NextAgain]_vars

\* what the pair of objects numbered ref holds now
Deref(ref) ==
    IF ref = Len(hist.heap) + 1 THEN [grid |-> grid, areas |-> areas]
    ELSE hist.heap[ref]

\* a call has been entered and has served none of its zone requests
AtEntry == pc = "zones" /\ zl.zi = 1 /\ raised = "none"

\* C30: every call of generate_from_json on one LevelGenerator starts from
\* an all-EMPTY grid and an empty zone table, and the grid and the zone
\* table an earlier call returned hold what they held when it returned.
C30_CallsIndependent ==
    /\ AtEntry =>
          /\ \A y \in 0..(height - 1), x \in 0..(width - 1) : grid[y][x] = EMPTY
          /\ Len(areas) = 0
    /\ \A i \in 1..Len(hist.results) :
          /\ Deref(hist.results[i].ref).grid = hist.results[i].grid
          /\ Deref(hist.results[i].ref).areas = hist.results[i].areas

\* a later call has filed a zone while the result of an earlier call holds
\* a zone table of two zones and a grid that differs from the present one
C30_Witness ==
    /\ hist.calls = 2 /\ Len(areas) >= 1
    /\ \E i \in 1..Len(hist.results) :
          /\ Len(hist.results[i].areas) = 2
          /\ hist.results[i].grid # grid

====
